---- MODULE Spec2Model ----
(***************************************************************************)
(* A model of the poker table engine (src/src/logic/table.rs): the hand    *)
(* loop, the street loop, action validation, meta-action handling, state   *)
(* broadcast and pot settlement.  The driver thread is one process whose   *)
(* position is pc; the clients act through the two shared inboxes.         *)
(***************************************************************************)
EXTENDS Integers, Sequences, FiniteSets, TLC

(***************************************************************************)
(* Program constants                                                       *)
(***************************************************************************)
NumSeats == 9
NON_HUMAN_HANDS_LIMIT == 3
MaxAttempts == 45
DefaultSmallBlind == 4
DefaultBigBlind == 8
DefaultBuyIn == 1000
DefaultMaxPlayers == 9

(***************************************************************************)
(* Bounds of the model                                                     *)
(***************************************************************************)
MaxHumans == 3      \* human player ids 1..MaxHumans
MaxQueue == 1       \* meta-actions a client may have pending in the queue
MaxRetries == 1     \* invalid submissions a client makes in one turn
MaxRank == 2        \* hand ranks 1..MaxRank the evaluator may return
MaxMetas == 2       \* meta-actions the clients send in one run

Seats == 0 .. (NumSeats - 1)
HumanIds == 1 .. MaxHumans
BotIds == {101, 102}
AllIds == HumanIds \cup BotIds
AdminId == 1
HubId == 0
Ranks == 1 .. MaxRank

\* the amounts a client may bet
BetValues == {500, 1000}

\* the stacks of the seats 0, 1, ... before the first hand: the buy-in, the
\* short stacks of tests::big_blind_not_enough_money and tests::outright_side_pot,
\* and a seat that has lost all its money
StackConfigs ==
    {<<1000, 1000>>, <<3, 1000>>, <<1000, 3>>, <<1000, 0, 1000>>,
     <<1000, 1000, 1000>>, <<500, 1000, 1000>>, <<3, 3, 1000>>, <<3, 1000, 500>>}

Streets == <<"Preflop", "Flop", "Turn", "River", "ShowDown">>
StreetNames == {"Preflop", "Flop", "Turn", "River", "ShowDown"}
BettingStreets == {"Preflop", "Flop", "Turn", "River"}

Min(a, b) == IF a <= b THEN a ELSE b
Max(a, b) == IF a >= b THEN a ELSE b

RECURSIVE SumOver(_, _)
SumOver(f, S) ==
    IF S = {} THEN 0
    ELSE LET x == CHOOSE y \in S : TRUE IN f[x] + SumOver(f, S \ {x})

(***************************************************************************)
(* Player (seat-bound state) and PlayerConfig                              *)
(***************************************************************************)
NoAction == [type |-> "None", amount |-> 0]
Fold == [type |-> "Fold", amount |-> 0]
Check == [type |-> "Check", amount |-> 0]
Call == [type |-> "Call", amount |-> 0]
SitOut == [type |-> "SitOut", amount |-> 0]
Bet(v) == [type |-> "Bet", amount |-> v]
PostSmallBlind(v) == [type |-> "PostSmallBlind", amount |-> v]
PostBigBlind(v) == [type |-> "PostBigBlind", amount |-> v]

\* an empty seat (None in the players array)
NoPlayer ==
    [id |-> 0, hole_cards |-> <<>>, is_active |-> FALSE, is_sitting_out |-> FALSE,
     money |-> 0, human_controlled |-> FALSE, last_action |-> NoAction]

\* Player::new(id, human_controlled, money): a new player holds no cards and
\* is not part of a hand until play_one_hand activates it
NewPlayer(id, human, money) ==
    [id |-> id, hole_cards |-> <<>>, is_active |-> FALSE, is_sitting_out |-> FALSE,
     money |-> money, human_controlled |-> human, last_action |-> NoAction]

is_all_in(p) == p.is_active /\ p.money = 0

deactivate(p) == [p EXCEPT !.is_active = FALSE]

NoConfig == [present |-> FALSE, name |-> 0, player_addr |-> 0, heart_beat |-> FALSE]

\* PlayerConfig::new(id, name, player_addr): the heart beat starts fresh
NewConfig(name, addr) ==
    [present |-> TRUE, name |-> name, player_addr |-> addr, heart_beat |-> TRUE]

has_active_heart_beat(c) == c.heart_beat

Occupied(players) == {s \in Seats : players[s].id # 0}

SeatOf(players, id) ==
    IF \E s \in Seats : players[s].id = id
    THEN CHOOSE s \in Seats : players[s].id = id /\ \A t \in Seats : players[t].id = id => s <= t
    ELSE NumSeats

(***************************************************************************)
(* GameHand                                                                *)
(***************************************************************************)
ZeroContributions == [s \in Seats |-> 0]

DefaultGameHand ==
    [street |-> "Preflop", flop |-> <<>>, turn |-> 0, river |-> 0,
     current_bet |-> 0, index_to_act |-> NumSeats,
     street_contributions |-> [st \in BettingStreets |-> ZeroContributions]]

\* GameHand::contribute: add the amount to the seat's contribution of the street
contribute(gh, index, amount) ==
    [gh EXCEPT !.street_contributions[gh.street][index] = @ + amount]

\* step 1 of divvy_pots: collapse the contributions across the streets
TotalContribution(gh, s) ==
    gh.street_contributions["Preflop"][s] + gh.street_contributions["Flop"][s]
    + gh.street_contributions["Turn"][s] + gh.street_contributions["River"][s]

Totals(gh) == [s \in Seats |-> TotalContribution(gh, s)]

\* the position of a seat in hand order starting from starting_idx
HandOrder(s, starting_idx) == (s - starting_idx + NumSeats) % NumSeats

\* the seats of S in hand order starting from starting_idx
RECURSIVE InHandOrder(_, _)
InHandOrder(S, starting_idx) ==
    IF S = {} THEN <<>>
    ELSE LET first == CHOOSE s \in S :
                 \A t \in S : HandOrder(s, starting_idx) <= HandOrder(t, starting_idx)
         IN <<first>> \o InHandOrder(S \ {first}, starting_idx)

\* the pot boundaries: the distinct non-zero totals of the still-active seats,
\* in ascending order
RECURSIVE Ascending(_)
Ascending(S) ==
    IF S = {} THEN <<>>
    ELSE LET lo == CHOOSE x \in S : \A y \in S : x <= y
         IN <<lo>> \o Ascending(S \ {lo})

ActiveSeats(players) == {s \in Seats : players[s].id # 0 /\ players[s].is_active}

PotLevels(players, total) ==
    Ascending({total[s] : s \in {t \in ActiveSeats(players) : total[t] > 0}})

\* the chips of every seat (folded or not) between the previous level and this one
PotSize(total, prev, level) ==
    SumOver([s \in Seats |-> Min(total[s], level) - Min(total[s], prev)], Seats)

Eligible(players, total, level) == {s \in ActiveSeats(players) : total[s] >= level}

Winners(players, total, level, rank) ==
    LET E == Eligible(players, total, level)
    IN {s \in E : \A t \in E : rank[s] >= rank[t]}

\* the settlements of one pot: an even split, the first `remainder` winners in
\* hand order receive one chip more
PotSettlements(pot, winners, starting_idx) ==
    LET order == InHandOrder(winners, starting_idx)
        n == Len(order)
        share == pot \div n
        remainder == pot % n
    IN [k \in 1 .. n |->
           [seat |-> order[k], amount |-> share + (IF k <= remainder THEN 1 ELSE 0)]]

RECURSIVE DivvyLevels(_, _, _, _, _, _)
DivvyLevels(players, total, levels, prev, rank, starting_idx) ==
    IF levels = <<>> THEN <<>>
    ELSE LET level == Head(levels)
         IN PotSettlements(PotSize(total, prev, level),
                           Winners(players, total, level, rank), starting_idx)
            \o DivvyLevels(players, total, Tail(levels), level, rank, starting_idx)

\* GameHand::divvy_pots: the list of settlements
divvy_pots(gh, players, rank, starting_idx) ==
    DivvyLevels(players, Totals(gh), PotLevels(players, Totals(gh)), 0, rank, starting_idx)

RECURSIVE SettledAmount(_, _)
SettledAmount(settlements, s) ==
    IF settlements = <<>> THEN 0
    ELSE (IF Head(settlements).seat = s THEN Head(settlements).amount ELSE 0)
         + SettledAmount(Tail(settlements), s)

RECURSIVE SettlementSum(_)
SettlementSum(settlements) ==
    IF settlements = <<>> THEN 0
    ELSE Head(settlements).amount + SettlementSum(Tail(settlements))

\* Player::pay for every settlement
PaySettlements(players, settlements) ==
    [s \in Seats |->
        IF players[s].id = 0 THEN players[s]
        ELSE [players[s] EXCEPT !.money = @ + SettledAmount(settlements, s)]]

(***************************************************************************)
(* State                                                                   *)
(***************************************************************************)
VARIABLES
    table,                  \* the Table struct
    gamehand,               \* the GameHand of the hand in progress
    incoming_actions,       \* the player-action mailbox: id -> pending action
    incoming_meta_actions,  \* the meta-action queue
    pc,                     \* the driver's position
    local,                  \* the driver's local variables
    hand_limit,             \* the argument of play(); 0 is None
    outbox,                 \* the messages the driver's last step sent
    client_metas,           \* the number of meta-actions the clients have sent
    hist                    \* what happened in the current hand (history)

vars == <<table, gamehand, incoming_actions, incoming_meta_actions, pc, local,
          hand_limit, outbox, client_metas, hist>>

(***************************************************************************)
(* Messages                                                                *)
(***************************************************************************)
Msg(to, msg_type, body) == [to |-> to, msg_type |-> msg_type, body |-> body]

\* PlayerConfig::send_specific_message: only to a config with a recipient
send_specific_message(msg_type, body, id, configs) ==
    IF id \in AllIds /\ configs[id].present /\ configs[id].player_addr # 0
    THEN {Msg(configs[id].player_addr, msg_type, body)}
    ELSE {}

\* PlayerConfig::send_group_message: to every config with a recipient
send_group_message(msg_type, body, configs) ==
    {Msg(configs[id].player_addr, msg_type, body) :
        id \in {j \in AllIds : configs[j].present /\ configs[j].player_addr # 0}}

\* Table::get_game_state_json: the part of a game_state every recipient gets
get_game_state_json(t, gh, has_gamehand, game_suspended) ==
    [name |-> "Table", max_players |-> t.max_players, small_blind |-> t.small_blind,
     big_blind |-> t.big_blind, buy_in |-> t.buy_in, password |-> t.password,
     button_idx |-> t.button_idx, hand_num |-> t.hand_num,
     game_suspended |-> game_suspended,
     players |->
        [s \in {x \in Occupied(t.players) : t.configs[t.players[x].id].present} |->
            [player_name |-> t.configs[t.players[s].id].name,
             money |-> t.players[s].money,
             is_active |-> t.players[s].is_active,
             is_sitting_out |-> t.players[s].is_sitting_out,
             is_all_in |-> is_all_in(t.players[s]),
             last_action |-> t.players[s].last_action,
             contributions |->
                IF has_gamehand
                THEN [st \in BettingStreets |-> gh.street_contributions[st][s]]
                ELSE [st \in BettingStreets |-> 0]]],
     street |-> IF has_gamehand THEN gh.street ELSE "",
     current_bet |-> IF has_gamehand THEN gh.current_bet ELSE 0,
     flop |-> IF has_gamehand THEN gh.flop ELSE <<>>,
     turn |-> IF has_gamehand THEN gh.turn ELSE 0,
     river |-> IF has_gamehand THEN gh.river ELSE 0,
     index_to_act |-> IF has_gamehand THEN gh.index_to_act ELSE NumSeats]

\* (mutant) hole_cards is not reset for a seat without cards: the message
\* keeps the cards written for the seat handled before it
PersonalGameState_Stale(t, s, state) ==
    LET before == {x \in Occupied(t.players) : x < s /\ Len(t.players[x].hole_cards) = 2}
        last == CHOOSE x \in before : \A y \in before : y <= x
    IN [your_index |-> s,
        hole_cards |-> IF Len(t.players[s].hole_cards) = 2 THEN t.players[s].hole_cards
                       ELSE IF before # {} THEN t.players[last].hole_cards ELSE <<>>,
        state |-> state]

\* the personal part of the game_state sent to the player in seat s
PersonalGameState(t, s, state) ==
    [your_index |-> s,
     hole_cards |-> IF Len(t.players[s].hole_cards) = 2 THEN t.players[s].hole_cards ELSE <<>>,
     state |-> state]

\* Table::send_game_state: one personal message per occupied seat
send_game_state(t, gh, has_gamehand, game_suspended) ==
    LET state == get_game_state_json(t, gh, has_gamehand, game_suspended)
    IN UNION {send_specific_message("game_state", PersonalGameState(t, s, state),
                                    t.players[s].id, t.configs) :
                s \in Occupied(t.players)}

(***************************************************************************)
(* Seating                                                                 *)
(***************************************************************************)
JoinOk(i) == [ok |-> TRUE, index |-> i, err |-> ""]
JoinErr(e) == [ok |-> FALSE, index |-> NumSeats, err |-> e]

\* (mutant) a player who is already at the table is seated anew
Rejoin_Reseat(t, id, config, player) ==
    [res |-> JoinOk(SeatOf(t.players, id)),
     t |-> [t EXCEPT !.configs[id] = config, !.players[SeatOf(t.players, id)] = player]]

\* the first loop of Table::add_player: the player is already at the table,
\* the config is inserted again and the seat returned
Rejoin(t, id, config, player) ==
    [res |-> JoinOk(SeatOf(t.players, id)),
     t |-> [t EXCEPT !.configs[id] = config]]

\* (mutant) the table is full only when it holds more than max_players
add_player_OffByOne(t, id, config, player) ==
    IF \E s \in Seats : t.players[s].id = id
    THEN Rejoin(t, id, config, player)
    ELSE IF Cardinality(Occupied(t.players)) > t.max_players
    THEN [res |-> JoinErr("GameIsFull"), t |-> t]
    ELSE IF \E s \in Seats : t.players[s].id = 0
    THEN LET i == CHOOSE s \in Seats :
                    t.players[s].id = 0 /\ \A x \in Seats : t.players[x].id = 0 => s <= x
         IN [res |-> JoinOk(i),
             t |-> [t EXCEPT !.players[i] = player, !.configs[id] = config]]
    ELSE [res |-> JoinErr("GameIsFull"), t |-> t]

\* Table::add_player: result and new table
add_player(t, id, config, player) ==
    IF \E s \in Seats : t.players[s].id = id
    THEN Rejoin(t, id, config, player)
    ELSE IF Cardinality(Occupied(t.players)) >= t.max_players
    THEN [res |-> JoinErr("GameIsFull"), t |-> t]
    ELSE IF \E s \in Seats : t.players[s].id = 0
    THEN LET i == CHOOSE s \in Seats :
                    t.players[s].id = 0 /\ \A x \in Seats : t.players[x].id = 0 => s <= x
         IN [res |-> JoinOk(i),
             t |-> [t EXCEPT !.players[i] = player, !.configs[id] = config]]
    ELSE [res |-> JoinErr("GameIsFull"), t |-> t]

\* (mutant) a Join without password is not checked
add_human_NoMissing(t, id, config, password) ==
    IF t.password # 0 /\ password # 0 /\ t.password # password
    THEN [res |-> JoinErr("InvalidPassword"), t |-> t]
    ELSE add_player(t, id, config, NewPlayer(id, TRUE, t.buy_in))

\* Table::add_human: the password check, then add_player
add_human(t, id, config, password) ==
    IF t.password # 0 /\ password # 0 /\ t.password # password
    THEN [res |-> JoinErr("InvalidPassword"), t |-> t]
    ELSE IF t.password # 0 /\ password = 0
    THEN [res |-> JoinErr("MissingPassword"), t |-> t]
    ELSE add_player(t, id, config, NewPlayer(id, TRUE, t.buy_in))

\* Player::new_bot draws a new id
FreshBotId(t) ==
    LET free == {b \in BotIds : ~t.configs[b].present /\ \A s \in Seats : t.players[s].id # b}
    IN IF free = {} THEN 0 ELSE CHOOSE b \in free : \A c \in free : b <= c

\* Table::add_bot
add_bot(t, name) ==
    LET id == FreshBotId(t)
    IN IF id = 0 THEN [res |-> JoinErr("GameIsFull"), t |-> t]
       ELSE add_player(t, id, NewConfig(name, 0), NewPlayer(id, FALSE, t.buy_in))

(***************************************************************************)
(* Meta-actions                                                            *)
(***************************************************************************)
MetaAction(type, id, cmd, val) == [type |-> type, id |-> id, cmd |-> cmd, val |-> val]

AdminCommands ==
    {"SmallBlind", "BigBlind", "BuyIn", "SetPassword", "ShowPassword", "AddBot",
     "RemoveBot", "Restart"}

AdminSuccess(updated, val) == [updated |-> updated, val |-> val]
ErrorBody(error) == [error |-> error]
Returned(id, reason) == Msg(HubId, "Returned", [id |-> id, reason |-> reason])

\* the first seat that holds a bot
FirstBotSeat(players) ==
    LET bots == {s \in Occupied(players) : ~players[s].human_controlled}
    IN IF bots = {} THEN NumSeats ELSE CHOOSE s \in bots : \A x \in bots : s <= x

\* (mutant) Restart gives every player the buy-in a table starts with
RestartMoney_Default(t) ==
    [s \in Seats |->
        IF t.players[s].id = 0 THEN t.players[s]
        ELSE [t.players[s] EXCEPT !.money = DefaultBuyIn]]

\* AdminCommand::Restart: every seated player gets the buy_in amount of money
RestartMoney(t) ==
    [s \in Seats |->
        IF t.players[s].id = 0 THEN t.players[s]
        ELSE [t.players[s] EXCEPT !.money = t.buy_in]]

\* the match of Table::handle_admin_command on the command, and the reply;
\* w = [t: the table, q: the queue, out: messages sent]
ExecuteAdmin(w, id, cmd, val) ==
    LET t == w.t
    IN
         LET bot == FirstBotSeat(t.players)
             added == add_bot(t, 1)
             t2 ==
               CASE cmd = "SmallBlind" -> [t EXCEPT !.small_blind = val]
                 [] cmd = "BigBlind" -> [t EXCEPT !.big_blind = val]
                 [] cmd = "BuyIn" -> [t EXCEPT !.buy_in = val]
                 [] cmd = "SetPassword" -> [t EXCEPT !.password = val]
                 [] cmd = "ShowPassword" -> t
                 [] cmd = "AddBot" -> added.t
                 [] cmd = "RemoveBot" ->
                      IF bot = NumSeats THEN t
                      ELSE [t EXCEPT !.configs[t.players[bot].id] = NoConfig,
                                     !.players[bot] = NoPlayer]
                 [] cmd = "Restart" -> [t EXCEPT !.players = RestartMoney(t)]
             reply ==
               CASE cmd = "SmallBlind" -> Msg(0, "admin_success", AdminSuccess("small_blind", val))
                 [] cmd = "BigBlind" -> Msg(0, "admin_success", AdminSuccess("big_blind", val))
                 [] cmd = "BuyIn" -> Msg(0, "admin_success", AdminSuccess("buy_in", val))
                 [] cmd = "SetPassword" -> Msg(0, "admin_success", AdminSuccess("password", val))
                 [] cmd = "ShowPassword" -> Msg(0, "admin_success", AdminSuccess("", t.password))
                 [] cmd = "AddBot" ->
                      IF added.res.ok THEN Msg(0, "admin_success", AdminSuccess("bot_added", 0))
                      ELSE Msg(0, "error", ErrorBody("unable_to_add_bot"))
                 [] cmd = "RemoveBot" ->
                      IF bot # NumSeats
                      THEN Msg(0, "admin_success", AdminSuccess("bot_removed", 0))
                      ELSE Msg(0, "error", ErrorBody("unable_to_remove_bot"))
                 [] cmd = "Restart" -> Msg(0, "admin_success", AdminSuccess("game_restarted", 0))
         IN [w EXCEPT !.t = t2,
                      !.out = @ \cup send_specific_message(reply.msg_type, reply.body, id, t2.configs)]

\* (mutant) the table is checked for a password before the sender is checked
handle_admin_command_PrivateFirst(w, id, cmd, val) ==
    IF w.t.password = 0
    THEN [w EXCEPT !.out = @ \cup
             send_specific_message("error", ErrorBody("not_private"), id, w.t.configs)]
    ELSE IF w.t.admin_id # id
    THEN [w EXCEPT !.out = @ \cup
             send_specific_message("error", ErrorBody("not_admin"), id, w.t.configs)]
    ELSE ExecuteAdmin(w, id, cmd, val)

\* Table::handle_admin_command: the sender must be the admin and the table
\* private, then the command is executed
\* (mutant) the admin's commands are executed on a table without password
handle_admin_command_AnyTable(w, id, cmd, val) ==
    IF w.t.admin_id # id
    THEN [w EXCEPT !.out = @ \cup
             send_specific_message("error", ErrorBody("not_admin"), id, w.t.configs)]
    ELSE ExecuteAdmin(w, id, cmd, val)

handle_admin_command(w, id, cmd, val) ==
    IF w.t.admin_id # id
    THEN [w EXCEPT !.out = @ \cup
             send_specific_message("error", ErrorBody("not_admin"), id, w.t.configs)]
    ELSE IF w.t.password = 0
    THEN [w EXCEPT !.out = @ \cup
             send_specific_message("error", ErrorBody("not_private"), id, w.t.configs)]
    ELSE ExecuteAdmin(w, id, cmd, val)

\* PlayerConfig::set_player_address
set_player_address(configs, id, addr) ==
    IF id \in AllIds /\ configs[id].present
    THEN [configs EXCEPT ![id].player_addr = addr]
    ELSE configs

\* (mutant) the address is replaced and nobody is told
HandleUpdateAddress_Silent(w, m, gh, has_gamehand) ==
    [w EXCEPT !.t = [w.t EXCEPT !.configs = set_player_address(w.t.configs, m.id, m.val)]]

\* the UpdateAddress arm of handle_meta_actions
HandleUpdateAddress(w, m, gh, has_gamehand) ==
    LET t2 == [w.t EXCEPT !.configs = set_player_address(w.t.configs, m.id, m.val)]
    IN [w EXCEPT !.t = t2,
                 !.out = @ \cup send_game_state(t2, gh, has_gamehand, FALSE)]

\* (mutant) an Admin command is handled wherever it is drained
HandleAdmin_Now(w, m, between_hands) ==
    handle_admin_command(w, m.id, m.cmd, m.val)

\* the Admin arm: during a hand the command goes back to the tail of the queue
HandleAdmin(w, m, between_hands) ==
    IF ~between_hands
    THEN [w EXCEPT !.q = Append(@, m)]
    ELSE handle_admin_command(w, m.id, m.cmd, m.val)

\* one arm of the match in Table::handle_meta_actions
HandleMetaAction(w, m, between_hands, gh, has_gamehand) ==
    LET t == w.t
        id == m.id
        known == id \in AllIds /\ t.configs[id].present
    IN CASE m.type = "Chat" ->
              IF known
              THEN LET c2 == [t.configs EXCEPT ![id].heart_beat = TRUE]
                   IN [w EXCEPT !.t.configs = c2,
                                !.out = @ \cup send_group_message("chat",
                                            [player_name |-> c2[id].name, text |-> m.val], c2)]
              ELSE w
         [] m.type = "Join" ->
              LET r == add_human(t, id, NewConfig(id, id), m.val)
              IN IF r.res.ok
                 THEN [w EXCEPT !.t = r.t,
                                !.out = @ \cup send_game_state(r.t, gh, has_gamehand, FALSE)]
                 ELSE [w EXCEPT !.out = @ \cup {Returned(id, r.res.err)}]
         [] m.type = "Leave" ->
              IF known
              THEN LET c2 == [t.configs EXCEPT ![id] = NoConfig]
                   IN [w EXCEPT !.t.configs = c2,
                                !.out = @ \cup send_specific_message("player_left",
                                                   [name |-> t.configs[id].name], id, c2)
                                          \cup {Returned(id, "Left")}]
              ELSE w
         [] m.type = "SetPlayerName" ->
              IF known
              THEN LET c2 == [t.configs EXCEPT ![id].name = m.val]
                   IN [w EXCEPT !.t.configs = c2,
                                !.out = @ \cup send_specific_message("player_name",
                                                   [name |-> m.val], id, c2)]
              ELSE w
         [] m.type = "SendPlayerName" ->
              IF known
              THEN [w EXCEPT !.out = @ \cup send_specific_message("player_name",
                                                [name |-> t.configs[id].name], id, t.configs)]
              ELSE w
         [] m.type = "UpdateAddress" -> HandleUpdateAddress(w, m, gh, has_gamehand)
         [] m.type = "TableInfo" ->
              [w EXCEPT !.out = @ \cup {Msg(m.val, "table_info",
                  [small_blind |-> t.small_blind, big_blind |-> t.big_blind,
                   buy_in |-> t.buy_in, max_players |-> t.max_players,
                   num_humans |-> Cardinality({s \in Occupied(t.players) :
                                                  t.players[s].human_controlled}),
                   num_bots |-> Cardinality({s \in Occupied(t.players) :
                                                ~t.players[s].human_controlled})])}]
         [] m.type = "ImBack" ->
              LET t2 == [t EXCEPT
                           !.players = [s \in Seats |->
                               IF t.players[s].id = id /\ id # 0
                               THEN [t.players[s] EXCEPT !.is_sitting_out = FALSE]
                               ELSE t.players[s]],
                           !.configs = IF known THEN [t.configs EXCEPT ![id].heart_beat = TRUE]
                                       ELSE t.configs]
              IN [w EXCEPT !.t = t2,
                           !.out = @ \cup send_game_state(t2, gh, has_gamehand, FALSE)]
         [] m.type = "SitOut" ->
              LET t2 == [t EXCEPT
                           !.players = [s \in Seats |->
                               IF t.players[s].id = id /\ id # 0
                               THEN [t.players[s] EXCEPT !.is_sitting_out = TRUE]
                               ELSE t.players[s]]]
              IN [w EXCEPT !.t = t2,
                           !.out = @ \cup send_game_state(t2, gh, has_gamehand, FALSE)]
         [] m.type = "Admin" -> HandleAdmin(w, m, between_hands)

\* the loop of Table::handle_meta_actions over the n entries found in the queue
RECURSIVE HandleMetaLoop(_, _, _, _, _)
HandleMetaLoop(w, n, between_hands, gh, has_gamehand) ==
    IF n = 0 THEN w
    ELSE HandleMetaLoop(
            HandleMetaAction([w EXCEPT !.q = Tail(@)], Head(w.q), between_hands, gh, has_gamehand),
            n - 1, between_hands, gh, has_gamehand)

\* Table::handle_meta_actions
handle_meta_actions(w, between_hands, gh, has_gamehand) ==
    HandleMetaLoop(w, Len(w.q), between_hands, gh, has_gamehand)

(***************************************************************************)
(* The driver: helpers                                                     *)
(***************************************************************************)
World == [t |-> table, q |-> incoming_meta_actions, out |-> {}]

NoApplied ==
    [seat |-> NumSeats, action |-> NoAction, submitted |-> NoAction, current_bet |-> 0,
     cumulative |-> 0, money |-> 0, is_sitting_out |-> FALSE]

Applied(seat, action, submitted, gh, p) ==
    [seat |-> seat, action |-> action, submitted |-> submitted,
     current_bet |-> gh.current_bet,
     cumulative |-> gh.street_contributions[gh.street][seat],
     money |-> p.money, is_sitting_out |-> p.is_sitting_out]

NoHist ==
    [money_before |-> 0, disturbed |-> FALSE, sb_posts |-> 0, bb_posts |-> 0, turns |-> 0,
     applied |-> NoApplied, folded |-> {}, button |-> 0, settlements |-> <<>>, rank |-> <<>>,
     finished |-> FALSE, empty_polls |-> 0, joined |-> {}, played |-> 0, run |-> 0,
     buttons |-> <<>>, disconnected |-> {}]

\* the history of a new hand: the number of hands played, their buttons, the
\* number of iterations in a row that found no human and the players whose
\* session has stopped are kept
NewHist ==
    [NoHist EXCEPT !.played = hist.played, !.run = hist.run, !.buttons = hist.buttons,
                   !.disconnected = hist.disconnected]

TableMoney(players) == SumOver([s \in Seats |-> players[s].money], Seats)

\* a Join or a Leave is among the meta-actions a drain of the queue handles
Disturbs(q) == \E k \in 1 .. Len(q) : q[k].type \in {"Join", "Leave"}

\* the seats a drain of the queue has filled: t is the table after the drain
NewlySeated(t) ==
    {s \in Occupied(t.players) : t.players[s].id # table.players[s].id}

\* (mutant) the hand order starts at the button itself
get_starting_idx_AtButton(t) == t.button_idx

\* Table::get_starting_idx
get_starting_idx(t) ==
    IF t.button_idx + 1 >= NumSeats THEN 0 ELSE t.button_idx + 1

\* the next seat of the cycle (starting_idx..9).chain(0..starting_idx).cycle()
NextSeat(i) == (i + 1) % NumSeats

\* (mutant) the scan for the next button starts at the button itself
find_next_button_FromButton(t) ==
    LET ok == {s \in Occupied(t.players) :
                  ~t.players[s].is_sitting_out /\ t.players[s].money # 0}
    IN IF ok = {} THEN NumSeats
       ELSE CHOOSE s \in ok :
              \A x \in ok : HandOrder(s, t.button_idx) <= HandOrder(x, t.button_idx)

\* Table::find_next_button: the seat, or NumSeats if there is none
find_next_button(t) ==
    LET ok == {s \in Occupied(t.players) :
                  ~t.players[s].is_sitting_out /\ t.players[s].money # 0}
    IN IF ok = {} THEN NumSeats
       ELSE CHOOSE s \in ok :
              \A x \in ok : HandOrder(s, NextSeat(t.button_idx)) <= HandOrder(x, NextSeat(t.button_idx))

\* the configs that failed the heart beat are removed
RemoveDeadConfigs(configs) ==
    [id \in AllIds |-> IF configs[id].present /\ ~has_active_heart_beat(configs[id])
                       THEN NoConfig ELSE configs[id]]

DeadConfigs(configs) ==
    {id \in AllIds : configs[id].present /\ ~has_active_heart_beat(configs[id])}

\* the seats whose config is gone
Leavers(t) == {s \in Occupied(t.players) : ~t.configs[t.players[s].id].present}

\* (mutant) the sweep leaves the seats as they are
SweepSeats_KeepsSeats(t) == t

\* the sweep of the hand loop: a seat whose config is gone is emptied
SweepSeats(t) ==
    [t EXCEPT !.players = [s \in Seats |-> IF s \in Leavers(t) THEN NoPlayer ELSE t.players[s]]]

\* num_settled + 1; the count is compared only with num_active - num_all_in,
\* which is at most NumSeats, so it is kept no further than NumSeats + 1
Settle(n) == IF n > NumSeats THEN n ELSE n + 1

\* The clauses of play_street's match on the action of seat i: each gives the
\* table, the hand and the counters after the action.
ApplyPostSmallBlind(t, gh, loc, i, action) ==
    LET p2 == [t.players[i] EXCEPT !.money = @ - action.amount, !.last_action = action]
    IN [t |-> [t EXCEPT !.players[i] = p2],
        gh |-> contribute([gh EXCEPT !.current_bet = t.small_blind], i, action.amount),
        loc |-> [loc EXCEPT !.num_all_in = IF is_all_in(p2) THEN @ + 1 ELSE @]]

\* (mutant) the street's bet becomes what the seat could pay
ApplyPostBigBlind_AmountPaid(t, gh, loc, i, action) ==
    LET p2 == [t.players[i] EXCEPT !.money = @ - action.amount, !.last_action = action]
    IN [t |-> [t EXCEPT !.players[i] = p2],
        gh |-> contribute([gh EXCEPT !.current_bet = action.amount], i, action.amount),
        loc |-> [loc EXCEPT !.num_all_in = IF is_all_in(p2) THEN @ + 1 ELSE @]]

ApplyPostBigBlind(t, gh, loc, i, action) ==
    LET p2 == [t.players[i] EXCEPT !.money = @ - action.amount, !.last_action = action]
    IN [t |-> [t EXCEPT !.players[i] = p2],
        gh |-> contribute([gh EXCEPT !.current_bet = t.big_blind], i, action.amount),
        loc |-> [loc EXCEPT !.num_all_in = IF is_all_in(p2) THEN @ + 1 ELSE @]]

\* (mutant) the fold is counted but the player is left in the hand
ApplyFold_StaysActive(t, gh, loc, i, action) ==
    [t |-> [t EXCEPT !.players[i].last_action = action],
     gh |-> gh,
     loc |-> [loc EXCEPT !.num_active = @ - 1]]

ApplyFold(t, gh, loc, i, action) ==
    [t |-> [t EXCEPT !.players[i] = [deactivate(t.players[i]) EXCEPT !.last_action = action]],
     gh |-> gh,
     loc |-> [loc EXCEPT !.num_active = @ - 1]]

ApplyCheck(t, gh, loc, i, action) ==
    [t |-> [t EXCEPT !.players[i].last_action = action],
     gh |-> gh,
     loc |-> [loc EXCEPT !.num_settled = Settle(@)]]

\* (mutant) the caller pays the whole difference, with or without the chips
ApplyCall_PaysDifference(t, gh, loc, i, action) ==
    LET p == t.players[i]
        difference == gh.current_bet - gh.street_contributions[gh.street][i]
        all_in == difference >= p.money
    IN [t |-> [t EXCEPT !.players[i] =
                  [p EXCEPT !.money = @ - difference, !.last_action = action]],
        gh |-> contribute(gh, i, difference),
        loc |-> IF all_in THEN [loc EXCEPT !.num_all_in = @ + 1]
                ELSE [loc EXCEPT !.num_settled = Settle(@)]]

ApplyCall(t, gh, loc, i, action) ==
    LET p == t.players[i]
        difference == gh.current_bet - gh.street_contributions[gh.street][i]
        all_in == difference >= p.money
        amount == IF all_in THEN p.money ELSE difference
    IN [t |-> [t EXCEPT !.players[i] =
                  [p EXCEPT !.money = @ - amount, !.last_action = action]],
        gh |-> contribute(gh, i, amount),
        loc |-> IF all_in THEN [loc EXCEPT !.num_all_in = @ + 1]
                ELSE [loc EXCEPT !.num_settled = Settle(@)]]

\* (mutant) the whole bet is taken from the player's money
ApplyBet_WholeAmount(t, gh, loc, i, action) ==
    LET difference == action.amount - gh.street_contributions[gh.street][i]
        p2 == [t.players[i] EXCEPT !.money = @ - action.amount, !.last_action = action]
    IN [t |-> [t EXCEPT !.players[i] = p2],
        gh |-> contribute([gh EXCEPT !.current_bet = action.amount], i, difference),
        loc |-> IF is_all_in(p2)
                THEN [loc EXCEPT !.num_all_in = @ + 1, !.num_settled = 0]
                ELSE [loc EXCEPT !.num_settled = 1]]

ApplyBet(t, gh, loc, i, action) ==
    LET difference == action.amount - gh.street_contributions[gh.street][i]
        p2 == [t.players[i] EXCEPT !.money = @ - difference, !.last_action = action]
    IN [t |-> [t EXCEPT !.players[i] = p2],
        gh |-> contribute([gh EXCEPT !.current_bet = action.amount], i, difference),
        loc |-> IF is_all_in(p2)
                THEN [loc EXCEPT !.num_all_in = @ + 1, !.num_settled = 0]
                ELSE [loc EXCEPT !.num_settled = 1]]

ApplyAction(t, gh, loc, i, action) ==
    CASE action.type = "PostSmallBlind" -> ApplyPostSmallBlind(t, gh, loc, i, action)
      [] action.type = "PostBigBlind" -> ApplyPostBigBlind(t, gh, loc, i, action)
      [] action.type \in {"Fold", "SitOut"} -> ApplyFold(t, gh, loc, i, action)
      [] action.type = "Check" -> ApplyCheck(t, gh, loc, i, action)
      [] action.type = "Call" -> ApplyCall(t, gh, loc, i, action)
      [] action.type = "Bet" -> ApplyBet(t, gh, loc, i, action)

\* (mutant) a bet is not compared with what the player has
Validate_NoUpperBound(submitted, gh, p, player_cumulative) ==
    CASE submitted.type = "Fold" ->
            IF gh.current_bet <= player_cumulative THEN Check ELSE Fold
      [] submitted.type = "Check" ->
            IF gh.current_bet > player_cumulative THEN NoAction ELSE Check
      [] submitted.type = "Call" ->
            IF gh.current_bet <= player_cumulative THEN NoAction ELSE Call
      [] submitted.type = "Bet" ->
            IF gh.current_bet < player_cumulative THEN NoAction
            ELSE IF submitted.amount <= gh.current_bet THEN NoAction
            ELSE submitted
      [] OTHER -> submitted

\* the validation of get_and_validate_action: the action to apply, or NoAction
\* when the submission is refused and the loop continues
Validate(submitted, gh, p, player_cumulative) ==
    CASE submitted.type = "Fold" ->
            IF gh.current_bet <= player_cumulative THEN Check ELSE Fold
      [] submitted.type = "Check" ->
            IF gh.current_bet > player_cumulative THEN NoAction ELSE Check
      [] submitted.type = "Call" ->
            IF gh.current_bet <= player_cumulative THEN NoAction ELSE Call
      [] submitted.type = "Bet" ->
            IF gh.current_bet < player_cumulative THEN NoAction
            ELSE IF submitted.amount > p.money + player_cumulative THEN NoAction
            ELSE IF submitted.amount <= gh.current_bet THEN NoAction
            ELSE submitted
      [] OTHER -> submitted

\* the error event a refused (or upgraded) submission of a human produces
ValidationError(submitted, gh, p, player_cumulative, configs) ==
    LET invalid ==
          CASE submitted.type = "Fold" -> gh.current_bet <= player_cumulative /\ p.human_controlled
            [] submitted.type = "Check" -> gh.current_bet > player_cumulative /\ p.human_controlled
            [] submitted.type = "Call" -> gh.current_bet <= player_cumulative
            [] submitted.type = "Bet" ->
                 /\ gh.current_bet >= player_cumulative
                 /\ \/ submitted.amount > p.money + player_cumulative
                    \/ submitted.amount <= gh.current_bet
            [] OTHER -> FALSE
    IN IF invalid
       THEN send_specific_message("error", ErrorBody("invalid_action"), p.id, configs)
       ELSE {}

\* the random choices of a computer-controlled player in get_action_from_player
BotChoices(p) ==
    {Fold, Check, Call}
    \cup (IF p.money <= 100 THEN {Bet(p.money)}
          ELSE {Bet(v) : v \in {x \in BetValues : 1 <= x /\ x < p.money \div 2}})

\* (mutant) the loop is left as soon as hand_num reaches the limit
HandLimitReached_AtLimit(t, limit) == limit # 0 /\ t.hand_num >= limit

\* the hand limit of play(): 0 is None
HandLimitReached(t, limit) == limit # 0 /\ t.hand_num > limit

(***************************************************************************)
(* The driver: Table::play, one iteration of the hand loop up to the call  *)
(* of play_one_hand                                                        *)
(***************************************************************************)
\* handle_player_heart_beats asks every config twice whether its heart beat
\* is active, first to notify the lobby and then to retain the config: late
\* are the configs whose heart beat runs out between the two
HandLoopTopWith(late) ==
    /\ pc = "between"
    /\ LET w1 == handle_meta_actions(World, TRUE, gamehand, FALSE)
           dead == DeadConfigs(w1.t.configs)
           later == [id \in AllIds |-> IF id \in late
                                       THEN [w1.t.configs[id] EXCEPT !.heart_beat = FALSE]
                                       ELSE w1.t.configs[id]]
           t2 == SweepSeats([w1.t EXCEPT !.configs = RemoveDeadConfigs(later)])
           out2 == w1.out \cup {Returned(id, "HeartBeatFailed") : id \in dead}
           num_human_players ==
               Cardinality({s \in Occupied(t2.players) : t2.players[s].human_controlled})
           non_human_hands ==
               IF num_human_players = 0 THEN local.non_human_hands + 1
               ELSE local.non_human_hands
       IN /\ table' = t2
          /\ incoming_meta_actions' = w1.q
          /\ hist' = [NewHist EXCEPT !.run = IF num_human_players = 0 THEN hist.run + 1 ELSE 0]
          /\ IF HandLimitReached(t2, hand_limit)
             THEN /\ pc' = "game_over"
                  /\ local' = local
                  /\ outbox' = out2 \cup {Msg(HubId, "GameOver", [table_name |-> "Table"])}
             ELSE IF non_human_hands > NON_HUMAN_HANDS_LIMIT
             THEN /\ pc' = "game_over"
                  /\ local' = [local EXCEPT !.non_human_hands = non_human_hands]
                  /\ outbox' = out2 \cup {Msg(HubId, "GameOver", [table_name |-> "Table"])}
             ELSE /\ pc' = "play_one_hand"
                  /\ local' = [local EXCEPT !.non_human_hands = non_human_hands]
                  /\ outbox' = out2
    /\ UNCHANGED <<gamehand, incoming_actions, hand_limit, client_metas>>

\* an iteration during which no heart beat runs out
HandLoopTop == HandLoopTopWith({})

\* Table::deal_hands: two cards from the top of the deck for every active seat,
\* in seat order; a card is named by its position in the shuffled deck
DealtBefore(players, s) == Cardinality({x \in ActiveSeats(players) : x < s})

deal_hands(players) ==
    [s \in Seats |->
        IF players[s].id # 0 /\ players[s].is_active
        THEN [players[s] EXCEPT !.hole_cards =
                 @ \o <<2 * DealtBefore(players, s) + 1, 2 * DealtBefore(players, s) + 2>>]
        ELSE players[s]]

\* the first part of play_one_hand: every seat with money becomes active
ActivatePlayers(players) ==
    [s \in Seats |->
        IF players[s].id = 0 THEN players[s]
        ELSE [players[s] EXCEPT !.is_active = (players[s].money # 0)]]

NumConfigs(configs) == Cardinality({id \in AllIds : configs[id].present})

(***************************************************************************)
(* Table::play_one_hand up to the first street: a suspended table returns  *)
(* to the hand loop, otherwise the mailbox is drained and the cards dealt  *)
(***************************************************************************)
\* (mutant) a hand is played with one active player
PlayOneHand_OneIsEnough ==
    /\ pc = "play_one_hand"
    /\ LET activated == ActivatePlayers(table.players)
           num_active == Cardinality(ActiveSeats(activated))
           t1 == [table EXCEPT !.players = activated]
       IN IF NumConfigs(table.configs) < 1 \/ num_active < 1
          THEN /\ table' = t1
               /\ gamehand' = DefaultGameHand
               /\ outbox' = send_game_state(t1, DefaultGameHand, TRUE, TRUE)
               /\ pc' = "between"
               /\ hist' = NewHist
               /\ UNCHANGED incoming_actions
          ELSE /\ table' = [t1 EXCEPT !.players = deal_hands(activated),
                                      !.deck = 2 * num_active]
               /\ gamehand' = DefaultGameHand
               /\ incoming_actions' = [id \in AllIds |-> NoAction]
               /\ outbox' = send_group_message("new_hand",
                                [hand_num |-> table.hand_num, button_index |-> table.button_idx],
                                table.configs)
                            \cup send_game_state(t1, DefaultGameHand, TRUE, FALSE)
               /\ pc' = "street_start"
               /\ hist' = [NewHist EXCEPT !.money_before = TableMoney(table.players)]
    /\ UNCHANGED <<incoming_meta_actions, local, hand_limit, client_metas>>

PlayOneHand ==
    /\ pc = "play_one_hand"
    /\ LET activated == ActivatePlayers(table.players)
           num_active == Cardinality(ActiveSeats(activated))
           t1 == [table EXCEPT !.players = activated]
       IN IF NumConfigs(table.configs) < 1 \/ num_active < 2
          THEN /\ table' = t1
               /\ gamehand' = DefaultGameHand
               /\ outbox' = send_game_state(t1, DefaultGameHand, TRUE, TRUE)
               /\ pc' = "between"
               /\ hist' = NewHist
               /\ UNCHANGED incoming_actions
          ELSE /\ table' = [t1 EXCEPT !.players = deal_hands(activated),
                                      !.deck = 2 * num_active]
               /\ gamehand' = DefaultGameHand
               /\ incoming_actions' = [id \in AllIds |-> NoAction]
               /\ outbox' = send_group_message("new_hand",
                                [hand_num |-> table.hand_num, button_index |-> table.button_idx],
                                table.configs)
                            \cup send_game_state(t1, DefaultGameHand, TRUE, FALSE)
               /\ pc' = "street_start"
               /\ hist' = [NewHist EXCEPT !.money_before = TableMoney(table.players)]
    /\ UNCHANGED <<incoming_meta_actions, local, hand_limit, client_metas>>

(***************************************************************************)
(* Table::play_street up to its loop                                       *)
(***************************************************************************)
PlayStreetStart ==
    /\ pc = "street_start"
    /\ LET cleared == [s \in Seats |->
                         IF table.players[s].id = 0 THEN table.players[s]
                         ELSE [table.players[s] EXCEPT !.last_action = NoAction]]
           num_all_in == Cardinality({s \in Occupied(cleared) : is_all_in(cleared[s])})
           num_active == Cardinality(ActiveSeats(cleared))
       IN /\ table' = [table EXCEPT !.players = cleared]
          /\ IF num_active < 2
             THEN /\ pc' = "finish_hand"
                  /\ UNCHANGED <<gamehand, local>>
             ELSE IF num_all_in + 1 = num_active
             THEN /\ pc' = "transition"
                  /\ UNCHANGED <<gamehand, local>>
             ELSE /\ pc' = "street_loop"
                  /\ gamehand' = [gamehand EXCEPT
                                    !.street_contributions[gamehand.street] = ZeroContributions]
                  /\ local' = [local EXCEPT !.num_active = num_active,
                                            !.num_all_in = num_all_in,
                                            !.num_settled = 0,
                                            !.i = get_starting_idx(table),
                                            !.attempts = 0]
    /\ outbox' = {}
    /\ hist' = [hist EXCEPT !.applied = NoApplied]
    /\ UNCHANGED <<incoming_actions, incoming_meta_actions, hand_limit, client_metas>>

(***************************************************************************)
(* One iteration of the loop of play_street, up to the polling loop of     *)
(* get_and_validate_action; a blind is returned at once and applied here   *)
(***************************************************************************)
Capped(n) == IF n >= 3 THEN 3 ELSE n + 1

\* the history after the action of seat i is applied
Record(h, i, action, submitted, gh, p) ==
    [h EXCEPT !.applied = Applied(i, action, submitted, gh, p),
              !.folded = IF action.type \in {"Fold", "SitOut"} THEN @ \cup {i} ELSE @,
              !.sb_posts = IF action.type = "PostSmallBlind" THEN Capped(@) ELSE @,
              !.bb_posts = IF action.type = "PostBigBlind" THEN Capped(@) ELSE @]

\* the counters of play_street after the seats whose config is gone are dropped
SweepCounters(t, loc) ==
    [loc EXCEPT
        !.num_all_in = @ - Cardinality({s \in Leavers(t) : is_all_in(t.players[s])}),
        !.num_active = @ - Cardinality({s \in Leavers(t) : t.players[s].is_active})]

\* the blind get_and_validate_action returns before it asks the player
BlindDue(t, gh, p) ==
    IF gh.street = "Preflop" /\ gh.current_bet = 0
    THEN PostSmallBlind(Min(t.small_blind, p.money))
    ELSE IF gh.street = "Preflop" /\ gh.current_bet = t.small_blind
    THEN PostBigBlind(Min(t.big_blind, p.money))
    ELSE NoAction

\* (mutant) every seated player with money is asked
Askable_AnyWithMoney(players, s) ==
    players[s].id # 0 /\ players[s].money > 0

\* the seat holds a player play_street asks: active and with money left
Askable(players, s) ==
    players[s].id # 0 /\ players[s].is_active /\ players[s].money > 0

\* the seat the loop reaches after seat i by passing the seats it has nobody to
\* ask in; the iterations passed differ in the seat index only, so they are
\* taken in one step.  With no seat left to ask the loop moves one seat on.
SkipTo(players, i) ==
    LET ask == {s \in Seats : Askable(players, s)}
    IN IF ask = {} THEN NextSeat(i)
       ELSE CHOOSE s \in ask :
              \A x \in ask : HandOrder(s, NextSeat(i)) <= HandOrder(x, NextSeat(i))

StreetIter ==
    /\ pc = "street_loop"
    /\ LET w1 == handle_meta_actions(World, FALSE, gamehand, TRUE)
           loc1 == SweepCounters(w1.t, local)
           t2 == SweepSeats(w1.t)
           i == local.i
           p == t2.players[i]
           h1 == [hist EXCEPT !.applied = NoApplied,
                              !.disturbed = @ \/ Disturbs(incoming_meta_actions),
                              !.joined = @ \cup NewlySeated(w1.t)]
       IN /\ incoming_meta_actions' = w1.q
          /\ IF loc1.num_active = 1
             THEN \* only one active player left: the hand is over
                  /\ pc' = "finish_hand"
                  /\ table' = t2
                  /\ local' = loc1
                  /\ gamehand' = gamehand
                  /\ hist' = h1
                  /\ outbox' = w1.out \cup send_game_state(t2, gamehand, TRUE, FALSE)
             ELSE IF loc1.num_settled + loc1.num_all_in = loc1.num_active
             THEN \* everyone is ready to go to the next street
                  /\ pc' = "transition"
                  /\ table' = t2
                  /\ local' = loc1
                  /\ gamehand' = gamehand
                  /\ hist' = h1
                  /\ outbox' = w1.out \cup send_game_state(t2, gamehand, TRUE, FALSE)
             ELSE IF ~Askable(t2.players, i)
             THEN \* nobody to ask in this seat
                  /\ pc' = "street_loop"
                  /\ table' = t2
                  /\ local' = [loc1 EXCEPT !.i = SkipTo(t2.players, i)]
                  /\ gamehand' = gamehand
                  /\ hist' = h1
                  /\ outbox' = w1.out
             ELSE LET gh2 == [gamehand EXCEPT !.index_to_act = i]
                      out2 == w1.out \cup send_game_state(t2, gh2, TRUE, FALSE)
                      blind == BlindDue(t2, gh2, p)
                      h2 == [h1 EXCEPT !.turns = Capped(@), !.empty_polls = 0]
                  IN IF blind # NoAction
                     THEN LET r == ApplyAction(t2, gh2, loc1, i, blind)
                          IN /\ pc' = "street_loop"
                             /\ table' = r.t
                             /\ gamehand' = r.gh
                             /\ local' = [r.loc EXCEPT !.i = NextSeat(i)]
                             /\ hist' = Record(h2, i, blind, NoAction, gh2, p)
                             /\ outbox' = out2
                     ELSE /\ pc' = "poll"
                          /\ table' = t2
                          /\ gamehand' = gh2
                          /\ local' = [loc1 EXCEPT !.attempts = 0]
                          /\ hist' = h2
                          /\ outbox' = out2 \cup send_specific_message("prompt",
                                          [current_bet |-> gh2.current_bet,
                                           to_call |-> Max(0, gh2.current_bet
                                               - gh2.street_contributions[gh2.street][i])],
                                          p.id, t2.configs)
    /\ UNCHANGED <<incoming_actions, hand_limit, client_metas>>

(***************************************************************************)
(* One iteration of the polling loop of get_and_validate_action; when it   *)
(* yields an action, play_street applies it and moves to the next seat     *)
(***************************************************************************)
\* (mutant) a player who sits out is asked like any other
AutoAction_IgnoresSitOut(p, configs) ==
    IF ~configs[p.id].present THEN Fold ELSE NoAction

\* the action the polling loop gives a player without asking: SitOut to a
\* player who sits out, Fold to one whose config is gone
AutoAction(p, configs) ==
    IF p.is_sitting_out THEN SitOut
    ELSE IF ~configs[p.id].present THEN Fold
    ELSE NoAction

\* the poll finds the seat's player neither sitting out nor gone, and finds
\* no action of a human in the mailbox
IsEmptyPoll ==
    LET w1 == handle_meta_actions(World, FALSE, gamehand, TRUE)
        p == w1.t.players[local.i]
    IN /\ p.human_controlled
       /\ AutoAction(p, w1.t.configs) = NoAction
       /\ incoming_actions[p.id] = NoAction

\* the action is returned: the heart beat is stamped, the action is applied
Return(w1, loc1, action, submitted, out) ==
    LET i == local.i
        p == w1.t.players[i]
        t2 == IF w1.t.configs[p.id].present
              THEN [w1.t EXCEPT !.configs[p.id].heart_beat = TRUE]
              ELSE w1.t
        r == ApplyAction(t2, gamehand, loc1, i, action)
    IN /\ pc' = "street_loop"
       /\ table' = r.t
       /\ gamehand' = r.gh
       /\ local' = [r.loc EXCEPT !.i = NextSeat(i)]
       /\ hist' = Record([hist EXCEPT !.disturbed = @ \/ Disturbs(incoming_meta_actions),
                                      !.joined = @ \cup NewlySeated(w1.t)],
                         i, action, submitted, gamehand, p)
       /\ outbox' = out

\* the loop continues: nothing but the meta-actions and the attempt is changed
Continue(w1, loc1, submitted, out) ==
    /\ pc' = "poll"
    /\ table' = w1.t
    /\ gamehand' = gamehand
    /\ local' = loc1
    /\ hist' = [hist EXCEPT !.disturbed = @ \/ Disturbs(incoming_meta_actions),
                            !.joined = @ \cup NewlySeated(w1.t),
                            !.applied = NoApplied,
                            !.empty_polls = IF submitted = NoAction THEN @ + 1 ELSE @]
    /\ outbox' = out

\* (mutant) the action that is read stays in the mailbox
PollStep_KeepsAction(submitted) ==
    LET w1 == handle_meta_actions(World, FALSE, gamehand, TRUE)
        i == local.i
        p == w1.t.players[i]
        player_cumulative == gamehand.street_contributions[gamehand.street][i]
        loc1 == IF p.human_controlled THEN [local EXCEPT !.attempts = @ + 1] ELSE local
        action == Validate(submitted, gamehand, p, player_cumulative)
        errors == ValidationError(submitted, gamehand, p, player_cumulative, w1.t.configs)
        auto == AutoAction(p, w1.t.configs)
    IN /\ incoming_meta_actions' = w1.q
       /\ UNCHANGED incoming_actions
       /\ IF auto # NoAction
          THEN Return(w1, loc1, auto, NoAction, w1.out)
          ELSE IF submitted = NoAction \/ action = NoAction
               THEN Continue(w1, loc1, submitted, w1.out \cup errors)
               ELSE Return(w1, loc1, action, submitted, w1.out \cup errors)

PollStep(submitted) ==
    LET w1 == handle_meta_actions(World, FALSE, gamehand, TRUE)
        i == local.i
        p == w1.t.players[i]
        player_cumulative == gamehand.street_contributions[gamehand.street][i]
        loc1 == IF p.human_controlled THEN [local EXCEPT !.attempts = @ + 1] ELSE local
        action == Validate(submitted, gamehand, p, player_cumulative)
        errors == ValidationError(submitted, gamehand, p, player_cumulative, w1.t.configs)
        auto == AutoAction(p, w1.t.configs)
    IN /\ incoming_meta_actions' = w1.q
       /\ IF auto # NoAction
          THEN Return(w1, loc1, auto, NoAction, w1.out) /\ UNCHANGED incoming_actions
          ELSE /\ incoming_actions' =
                     IF p.human_controlled THEN [incoming_actions EXCEPT ![p.id] = NoAction]
                     ELSE incoming_actions
               /\ IF submitted = NoAction \/ action = NoAction
                  THEN Continue(w1, loc1, submitted, w1.out \cup errors)
                  ELSE Return(w1, loc1, action, submitted, w1.out \cup errors)

\* a poll that does not wait: the player sits out, has left, is a bot, or a
\* human's action is in the mailbox
Poll ==
    /\ pc = "poll"
    /\ local.attempts < MaxAttempts
    /\ ~IsEmptyPoll
    /\ LET p == table.players[local.i]
       IN IF p.human_controlled
          THEN PollStep(incoming_actions[p.id])
          ELSE \E choice \in BotChoices(p) : PollStep(choice)
    /\ UNCHANGED <<hand_limit, client_metas>>

\* a poll that finds nothing and sleeps
PollEmpty ==
    /\ pc = "poll"
    /\ local.attempts < MaxAttempts
    /\ IsEmptyPoll
    /\ PollStep(NoAction)
    /\ UNCHANGED <<hand_limit, client_metas>>

\* (mutant) the time-out returns SitOut without queueing the meta-action
Timeout_NoMeta ==
    /\ pc = "poll"
    /\ local.attempts >= MaxAttempts
    /\ LET i == local.i
           p == table.players[i]
           r == ApplyAction(table, gamehand, local, i, SitOut)
       IN /\ pc' = "street_loop"
          /\ table' = r.t
          /\ gamehand' = r.gh
          /\ local' = [r.loc EXCEPT !.i = NextSeat(i)]
          /\ hist' = Record(hist, i, SitOut, NoAction, gamehand, p)
          /\ outbox' = {}
    /\ UNCHANGED <<incoming_actions, incoming_meta_actions, hand_limit, client_metas>>

\* the 45 attempts are used up: a SitOut meta-action is queued for the player
\* and SitOut is the action
Timeout ==
    /\ pc = "poll"
    /\ local.attempts >= MaxAttempts
    /\ LET i == local.i
           p == table.players[i]
           r == ApplyAction(table, gamehand, local, i, SitOut)
       IN /\ incoming_meta_actions' = Append(incoming_meta_actions, MetaAction("SitOut", p.id, "", 0))
          /\ pc' = "street_loop"
          /\ table' = r.t
          /\ gamehand' = r.gh
          /\ local' = [r.loc EXCEPT !.i = NextSeat(i)]
          /\ hist' = Record(hist, i, SitOut, NoAction, gamehand, p)
          /\ outbox' = {}
    /\ UNCHANGED <<incoming_actions, hand_limit, client_metas>>

(***************************************************************************)
(* Table::transition, called by play_one_hand after a street that did not  *)
(* end the hand                                                            *)
(***************************************************************************)
\* (mutant) the turn is passed over
NextStreet_SkipsTurn(street) ==
    CASE street = "Preflop" -> "Flop"
      [] street = "Flop" -> "River"
      [] street = "Turn" -> "River"
      [] street = "River" -> "ShowDown"
      [] street = "ShowDown" -> "ShowDown"

NextStreet(street) ==
    CASE street = "Preflop" -> "Flop"
      [] street = "Flop" -> "Turn"
      [] street = "Turn" -> "River"
      [] street = "River" -> "ShowDown"
      [] street = "ShowDown" -> "ShowDown"

\* the community cards dealt on entering a street, from the top of the deck
transition(t, gh) ==
    LET gh1 == [gh EXCEPT !.current_bet = 0, !.index_to_act = NumSeats,
                          !.street = NextStreet(gh.street)]
    IN CASE gh.street = "Preflop" ->
              [t |-> [t EXCEPT !.deck = @ + 3],
               gh |-> [gh1 EXCEPT !.flop = <<t.deck + 1, t.deck + 2, t.deck + 3>>]]
         [] gh.street = "Flop" ->
              [t |-> [t EXCEPT !.deck = @ + 1], gh |-> [gh1 EXCEPT !.turn = t.deck + 1]]
         [] gh.street = "Turn" ->
              [t |-> [t EXCEPT !.deck = @ + 1], gh |-> [gh1 EXCEPT !.river = t.deck + 1]]
         [] OTHER -> [t |-> t, gh |-> gh1]

Transition ==
    /\ pc = "transition"
    /\ LET r == transition(table, gamehand)
       IN /\ table' = r.t
          /\ gamehand' = r.gh
          /\ outbox' = send_game_state(r.t, r.gh, TRUE, FALSE)
          /\ pc' = IF r.gh.street = "ShowDown" THEN "finish_hand" ELSE "street_start"
    /\ hist' = [hist EXCEPT !.applied = NoApplied]
    /\ UNCHANGED <<incoming_actions, incoming_meta_actions, local, hand_limit, client_metas>>

(***************************************************************************)
(* Table::finish_hand and the end of the iteration of the hand loop: the   *)
(* pots are paid, the cards taken back, hand_num and the button advanced   *)
(***************************************************************************)
\* the ranks the hand evaluator gives to the seats still in the hand
RankChoices(players) ==
    IF Cardinality(ActiveSeats(players)) >= 2
    THEN [ActiveSeats(players) -> Ranks]
    ELSE [ActiveSeats(players) -> {1}]

finish_hand(t, gh, rank) ==
    IF NumConfigs(t.configs) = 0
    THEN [t |-> t, settlements |-> <<>>]
    ELSE LET settlements == divvy_pots(gh, t.players, rank, get_starting_idx(t))
             paid == PaySettlements(t.players, settlements)
         IN [t |-> [t EXCEPT !.players =
                       [s \in Seats |-> IF paid[s].id = 0 THEN paid[s]
                                        ELSE [paid[s] EXCEPT !.hole_cards = <<>>]]],
             settlements |-> settlements]

FinishHand ==
    /\ pc = "finish_hand"
    /\ \E rank \in RankChoices(table.players) :
         LET r == finish_hand(table, gamehand, rank)
             t2 == [r.t EXCEPT !.hand_num = @ + 1]
             button == find_next_button(t2)
         IN /\ outbox' = IF NumConfigs(table.configs) = 0 THEN {}
                         ELSE send_group_message("finish_hand",
                                  [settlements |-> r.settlements], table.configs)
            /\ hist' = [hist EXCEPT !.applied = NoApplied, !.settlements = r.settlements,
                                    !.rank = rank, !.button = table.button_idx,
                                    !.finished = TRUE, !.played = @ + 1,
                                    !.buttons = Append(@, table.button_idx)]
            /\ IF button = NumSeats
               THEN /\ pc' = "aborted"
                    /\ table' = t2
               ELSE /\ pc' = "between"
                    /\ table' = [t2 EXCEPT !.button_idx = button]
    /\ UNCHANGED <<gamehand, incoming_actions, incoming_meta_actions, local, hand_limit, client_metas>>

(***************************************************************************)
(* The clients: the lobby writes a player action into the mailbox or       *)
(* appends a meta-action to the queue                                      *)
(***************************************************************************)
ClientActions == {Fold, Check, Call, SitOut} \cup {Bet(v) : v \in BetValues}

\* the player of the seat that is asked submits an action
SubmitAction ==
    /\ pc = "poll"
    /\ (local.attempts <= MaxRetries \/ local.attempts = MaxAttempts - 1)
    /\ LET p == table.players[local.i]
       IN /\ p.human_controlled
          /\ incoming_actions[p.id] = NoAction
          /\ \E a \in ClientActions : incoming_actions' = [incoming_actions EXCEPT ![p.id] = a]
    /\ UNCHANGED <<table, gamehand, incoming_meta_actions, pc, local, hand_limit, outbox,
                   client_metas, hist>>

SubmitMeta(m) ==
    /\ pc \in {"between", "street_loop", "poll"}
    /\ Len(incoming_meta_actions) < MaxQueue
    /\ client_metas < MaxMetas
    /\ m.id \in AllIds => table.configs[m.id].present
    /\ incoming_meta_actions' = Append(incoming_meta_actions, m)
    /\ client_metas' = client_metas + 1
    /\ UNCHANGED <<table, gamehand, incoming_actions, pc, local, hand_limit, outbox, hist>>

\* a seated player sits out, comes back or leaves
ClientSitOut == \E id \in HumanIds : SubmitMeta(MetaAction("SitOut", id, "", 0))
ClientImBack == \E id \in HumanIds : SubmitMeta(MetaAction("ImBack", id, "", 0))
ClientLeave == \E id \in HumanIds : SubmitMeta(MetaAction("Leave", id, "", 0))

(***************************************************************************)
(* Initial states: a table with the default settings on which the humans   *)
(* 1..n have been seated (seats 0..n-1), before the first hand             *)
(***************************************************************************)
SeatedPlayers(stacks) ==
    [s \in Seats |-> IF s < Len(stacks) THEN NewPlayer(s + 1, TRUE, stacks[s + 1])
                     ELSE NoPlayer]

SeatedConfigs(n) ==
    [id \in AllIds |-> IF id \in 1 .. n THEN NewConfig(id, id) ELSE NoConfig]

DefaultTable ==
    [players |-> [s \in Seats |-> NoPlayer],
     configs |-> [id \in AllIds |-> NoConfig],
     max_players |-> DefaultMaxPlayers,
     small_blind |-> DefaultSmallBlind,
     big_blind |-> DefaultBigBlind,
     buy_in |-> DefaultBuyIn,
     password |-> 0,
     admin_id |-> AdminId,
     button_idx |-> 0,
     hand_num |-> 1,
     deck |-> 0]

InitLocal ==
    [num_active |-> 0, num_all_in |-> 0, num_settled |-> 0, i |-> 0, attempts |-> 0,
     non_human_hands |-> 0]

InitRest ==
    /\ gamehand = DefaultGameHand
    /\ incoming_actions = [id \in AllIds |-> NoAction]
    /\ incoming_meta_actions = <<>>
    /\ pc = "between"
    /\ local = InitLocal
    /\ outbox = {}
    /\ client_metas = 0
    /\ hist = NoHist

SeatedTable(stacks) ==
    [DefaultTable EXCEPT !.players = SeatedPlayers(stacks),
                         !.configs = SeatedConfigs(Len(stacks))]

Init ==
    /\ \E stacks \in StackConfigs : table = SeatedTable(stacks)
    /\ hand_limit = 1
    /\ InitRest

Next ==
    \/ HandLoopTop
    \/ PlayOneHand
    \/ PlayStreetStart
    \/ StreetIter
    \/ Poll
    \/ Transition
    \/ FinishHand
    \/ SubmitAction

Spec == Init /\ [][Next]_vars

(***************************************************************************)
(* The same engine with players who sit out, come back and leave           *)
(***************************************************************************)
\* the seats of S are sitting out
SittingOut(t, S) ==
    [t EXCEPT !.players = [s \in Seats |->
        IF s \in S /\ t.players[s].id # 0 THEN [t.players[s] EXCEPT !.is_sitting_out = TRUE]
        ELSE t.players[s]]]

InitMeta ==
    /\ \E S \in SUBSET {0, 1} :
         table = SittingOut(SeatedTable(<<DefaultBuyIn, DefaultBuyIn>>), S)
    /\ hand_limit = 1
    /\ InitRest

NextMeta ==
    \/ Next
    \/ ClientSitOut
    \/ ClientImBack
    \/ ClientLeave

SpecMeta == InitMeta /\ [][NextMeta]_vars

(***************************************************************************)
(* The same engine on tables constructed with other blinds (Table::new     *)
(* takes small_blind and big_blind as given)                               *)
(***************************************************************************)
BlindValues == {DefaultSmallBlind, DefaultBigBlind}

InitBlinds ==
    /\ \E stacks \in {<<DefaultBuyIn, DefaultBuyIn>>, <<DefaultBuyIn, DefaultBuyIn, DefaultBuyIn>>} :
       \E sb \in BlindValues : \E bb \in BlindValues :
          table = [SeatedTable(stacks) EXCEPT !.small_blind = sb, !.big_blind = bb]
    /\ hand_limit = 1
    /\ InitRest

SpecBlinds == InitBlinds /\ [][Next]_vars

(***************************************************************************)
(* The same engine with a human who may stay silent and a bot: the polls   *)
(* that find nothing, the time-out, and the player coming back             *)
(***************************************************************************)
InitTimeout ==
    /\ table = add_bot(SeatedTable(<<DefaultBuyIn>>), 1).t
    /\ hand_limit = 2
    /\ InitRest

NextTimeout ==
    \/ Next
    \/ PollEmpty
    \/ Timeout
    \/ ClientImBack

SpecTimeout == InitTimeout /\ [][NextTimeout]_vars

(***************************************************************************)
(* The hand loop of a table that waits for players (one seat with money,   *)
(* so play_one_hand suspends the game), with or without password, whose    *)
(* players send Admin commands; a hand that starts is not followed         *)
(***************************************************************************)
AdminValues == {5}
Passwords == {0, 7}

\* a client sends an admin_command (session.rs forwards it as a meta-action)
SendAdmin(id, cmd, val) ==
    /\ pc \in {"between", "street_loop"}
    /\ Len(incoming_meta_actions) <= MaxQueue
    /\ client_metas < MaxMetas
    /\ table.configs[id].present
    /\ incoming_meta_actions' = Append(incoming_meta_actions, MetaAction("Admin", id, cmd, val))
    /\ client_metas' = client_metas + 1
    /\ UNCHANGED <<table, gamehand, incoming_actions, pc, local, hand_limit, outbox, hist>>

ClientAdmin ==
    \E id \in {1, 2} : \E cmd \in AdminCommands : \E val \in AdminValues :
        SendAdmin(id, cmd, val)

InitAdmin ==
    /\ \E pw \in Passwords : \E bot \in BOOLEAN :
         LET t == [SeatedTable(<<DefaultBuyIn, 0>>) EXCEPT !.password = pw]
         IN table = IF bot THEN add_bot([t EXCEPT !.players[0].money = 0], 1).t ELSE t
    /\ hand_limit = 1
    /\ InitRest

NextAdmin ==
    \/ HandLoopTop
    \/ PlayOneHand
    \/ ClientAdmin

SpecAdmin == InitAdmin /\ [][NextAdmin]_vars

(***************************************************************************)
(* The engine on a password-protected table whose players send Admin       *)
(* commands before, during and after the hand                              *)
(***************************************************************************)
ClientAdminInHand ==
    \/ \E cmd \in {"SmallBlind", "BuyIn", "Restart"} : \E val \in AdminValues :
          SendAdmin(AdminId, cmd, val)
    \/ \E val \in AdminValues : SendAdmin(2, "BigBlind", val)

InitDefer ==
    /\ table = [SeatedTable(<<DefaultBuyIn, DefaultBuyIn>>) EXCEPT !.password = 7]
    /\ hand_limit = 1
    /\ InitRest

NextDefer ==
    \/ Next
    \/ ClientAdminInHand

SpecDefer == InitDefer /\ [][NextDefer]_vars

(***************************************************************************)
(* The hand loop of a table of two or three places, with or without        *)
(* password, whose seated players have no chips left: players join and     *)
(* leave and the admin adds and removes bots; a hand that starts is not    *)
(* followed                                                                *)
(***************************************************************************)
JoinPasswords == {0, 7, 8}
TableSizes == {2, 3}

\* a client asks to join the table (session.rs sends Join with the password)
SendJoin(id, password) ==
    /\ pc \in {"between", "street_loop"}
    /\ Len(incoming_meta_actions) < MaxQueue
    /\ client_metas < MaxMetas
    /\ incoming_meta_actions' = Append(incoming_meta_actions, MetaAction("Join", id, "", password))
    /\ client_metas' = client_metas + 1
    /\ UNCHANGED <<table, gamehand, incoming_actions, pc, local, hand_limit, outbox, hist>>

ClientJoin == \E id \in HumanIds : \E password \in JoinPasswords : SendJoin(id, password)

ClientBots == \E cmd \in {"AddBot", "RemoveBot"} : SendAdmin(AdminId, cmd, 0)

InitSeats ==
    /\ \E stacks \in {<<>>, <<0>>, <<0, 0>>} : \E size \in TableSizes : \E pw \in Passwords :
         table = [SeatedTable(stacks) EXCEPT !.max_players = size, !.password = pw]
    /\ hand_limit = 1
    /\ InitRest

NextSeats ==
    \/ HandLoopTop
    \/ PlayOneHand
    \/ ClientJoin
    \/ ClientLeave
    \/ ClientBots

SpecSeats == InitSeats /\ [][NextSeats]_vars

(***************************************************************************)
(* The engine on a table with password: players join and join again, with  *)
(* or without the password, and the second player leaves, before, during   *)
(* and after a heads-up hand                                               *)
(***************************************************************************)
ClientJoinAny == \E id \in HumanIds : \E password \in Passwords : SendJoin(id, password)

ClientLeaveSecond == SubmitMeta(MetaAction("Leave", 2, "", 0))

InitJoin ==
    /\ table = [SeatedTable(<<DefaultBuyIn, DefaultBuyIn>>) EXCEPT !.password = 7]
    /\ hand_limit = 1
    /\ InitRest

NextJoin ==
    \/ Next
    \/ ClientJoinAny
    \/ ClientLeaveSecond

SpecJoin == InitJoin /\ [][NextJoin]_vars

(***************************************************************************)
(* Several hands in a row: play(hand_limit) with two humans who answer     *)
(* every prompt by folding or calling (a fold with nothing to call is      *)
(* taken as a check)                                                       *)
(***************************************************************************)
HandLimits == {1, 2, 3}

QuietActions == {Fold, Call}

\* the player of the seat that is asked folds or calls
SubmitQuiet ==
    /\ pc = "poll"
    /\ LET p == table.players[local.i]
       IN /\ p.human_controlled
          /\ incoming_actions[p.id] = NoAction
          /\ \E a \in QuietActions : incoming_actions' = [incoming_actions EXCEPT ![p.id] = a]
    /\ UNCHANGED <<table, gamehand, incoming_meta_actions, pc, local, hand_limit, outbox,
                   client_metas, hist>>

Driver ==
    \/ HandLoopTop
    \/ PlayOneHand
    \/ PlayStreetStart
    \/ StreetIter
    \/ Poll
    \/ Transition
    \/ FinishHand

InitLimit ==
    /\ table = SeatedTable(<<DefaultBuyIn, DefaultBuyIn>>)
    /\ hand_limit \in HandLimits
    /\ InitRest

NextLimit == Driver \/ SubmitQuiet

SpecLimit == InitLimit /\ [][NextLimit]_vars

(***************************************************************************)
(* play(2) on a table of one bot that a human joins and leaves: the hand   *)
(* loop counts every iteration that finds no human as a non-human hand     *)
(***************************************************************************)
ClientJoinFirst == SendJoin(1, 0)

ClientLeaveFirst == SubmitMeta(MetaAction("Leave", 1, "", 0))

InitBots ==
    /\ table = add_bot(DefaultTable, 1).t
    /\ hand_limit = 2
    /\ InitRest

NextBots ==
    \/ Driver
    \/ SubmitQuiet
    \/ ClientJoinFirst
    \/ ClientLeaveFirst

SpecBots == InitBots /\ [][NextBots]_vars

(***************************************************************************)
(* play(4) with three seats, some of them sitting out or without money,    *)
(* whose players fold whenever they are asked (tests::button_movement)     *)
(***************************************************************************)
SubmitFold ==
    /\ pc = "poll"
    /\ LET p == table.players[local.i]
       IN /\ p.human_controlled
          /\ incoming_actions[p.id] = NoAction
          /\ incoming_actions' = [incoming_actions EXCEPT ![p.id] = Fold]
    /\ UNCHANGED <<table, gamehand, incoming_meta_actions, pc, local, hand_limit, outbox,
                   client_metas, hist>>

InitButton ==
    /\ \E stacks \in {<<DefaultBuyIn, DefaultBuyIn, DefaultBuyIn>>, <<DefaultBuyIn, 0, DefaultBuyIn>>} :
       \E S \in SUBSET {0, 1, 2} :
          table = SittingOut(SeatedTable(stacks), S)
    /\ hand_limit = 4
    /\ InitRest

NextButton ==
    \/ Driver
    \/ SubmitFold
    \/ (SubmitQuiet /\ hist.played = 0)

SpecButton == InitButton /\ [][NextButton]_vars

(***************************************************************************)
(* The same hands with time passing: the heart beat of a config that is    *)
(* not stamped runs out, at any moment of the hand loop                    *)
(***************************************************************************)
\* PLAYER_TIMEOUT has passed since the last activity of a player
HeartBeatExpires ==
    /\ pc \in {"between", "street_loop", "poll"}
    /\ \E id \in AllIds :
         /\ table.configs[id].present
         /\ table.configs[id].heart_beat
         /\ table' = [table EXCEPT !.configs[id].heart_beat = FALSE]
    /\ UNCHANGED <<gamehand, incoming_actions, incoming_meta_actions, pc, local, hand_limit,
                   outbox, client_metas, hist>>

\* an iteration of the hand loop during which heart beats may run out
HandLoopTopLate ==
    \E late \in SUBSET {id \in AllIds : table.configs[id].present /\ table.configs[id].heart_beat} :
        HandLoopTopWith(late)

NextHeart ==
    \/ HandLoopTopLate
    \/ PlayOneHand
    \/ PlayStreetStart
    \/ StreetIter
    \/ Poll
    \/ Transition
    \/ FinishHand
    \/ SubmitQuiet
    \/ HeartBeatExpires

SpecHeart == InitLimit /\ [][NextHeart]_vars

(***************************************************************************)
(* A hand with sessions that stop on a ping time-out, whose players fall   *)
(* silent until their heart beat runs out, and clients that connect again  *)
(* with the same id                                                        *)
(***************************************************************************)
\* the recipient of the session that replaces the session with recipient addr
NewAddress(addr) == addr + 10

\* WsPlayerSession::hb: the client has not answered the pings for
\* CLIENT_TIMEOUT, the session stops and tells nobody
PingTimeout ==
    /\ pc \in {"between", "street_loop", "poll"}
    /\ \E id \in HumanIds :
         /\ table.configs[id].present
         /\ id \notin hist.disconnected
         /\ hist' = [hist EXCEPT !.disconnected = @ \cup {id}]
    /\ client_metas < MaxMetas
    /\ client_metas' = client_metas + 1
    /\ UNCHANGED <<table, gamehand, incoming_actions, incoming_meta_actions, pc, local,
                   hand_limit, outbox>>

\* the client connects again with its id: the lobby puts UpdateAddress with
\* the new session's recipient into the queue
Reconnect ==
    /\ pc \in {"between", "street_loop", "poll"}
    /\ Len(incoming_meta_actions) < MaxQueue
    /\ client_metas < MaxMetas
    /\ \E id \in hist.disconnected :
         /\ incoming_meta_actions' = Append(incoming_meta_actions,
                MetaAction("UpdateAddress", id, "", NewAddress(id)))
         /\ hist' = [hist EXCEPT !.disconnected = @ \ {id}]
    /\ client_metas' = client_metas + 1
    /\ UNCHANGED <<table, gamehand, incoming_actions, pc, local, hand_limit, outbox>>

NextReconnect ==
    \/ HandLoopTop
    \/ PlayOneHand
    \/ PlayStreetStart
    \/ StreetIter
    \/ Poll
    \/ Transition
    \/ FinishHand
    \/ (SubmitQuiet /\ table.players[local.i].id \notin hist.disconnected)
    \/ PingTimeout
    \/ Reconnect
    \/ (HeartBeatExpires /\ \E id \in hist.disconnected :
                               table'.configs[id] # table.configs[id])

SpecReconnect == InitJoin /\ [][NextReconnect]_vars

(***************************************************************************)
(* The same table whose admin sends "sitout" after an Admin command that   *)
(* is still in the queue                                                   *)
(***************************************************************************)
SitOutAfterAdmin ==
    /\ pc \in {"between", "street_loop"}
    /\ Len(incoming_meta_actions) <= MaxQueue
    /\ client_metas < MaxMetas
    /\ \E k \in 1 .. Len(incoming_meta_actions) :
         incoming_meta_actions[k].type = "Admin" /\ incoming_meta_actions[k].id = AdminId
    /\ incoming_meta_actions' = Append(incoming_meta_actions, MetaAction("SitOut", AdminId, "", 0))
    /\ client_metas' = client_metas + 1
    /\ UNCHANGED <<table, gamehand, incoming_actions, pc, local, hand_limit, outbox, hist>>

NextOrder ==
    \/ NextDefer
    \/ SitOutAfterAdmin

SpecOrder == InitDefer /\ [][NextOrder]_vars

(***************************************************************************)
(* A hand whose players write into the mailbox whenever they like: before  *)
(* the hand, during another player's turn, over an action still pending    *)
(***************************************************************************)
\* the lobby inserts the action under the player's id
SubmitAnyTime ==
    /\ pc \notin {"game_over", "aborted"}
    /\ \E id \in HumanIds : \E a \in QuietActions :
         /\ table.configs[id].present
         /\ incoming_actions[id] # a
         /\ incoming_actions' = [incoming_actions EXCEPT ![id] = a]
    /\ UNCHANGED <<table, gamehand, incoming_meta_actions, pc, local, hand_limit, outbox,
                   client_metas, hist>>

NextMailbox ==
    \/ Driver
    \/ SubmitAnyTime
    \/ ClientSitOut

SpecMailbox == InitJoin /\ [][NextMailbox]_vars

(***************************************************************************)
(* The waiting table of SpecAdmin whose players also write into the        *)
(* mailbox while the game is suspended                                     *)
(***************************************************************************)
NextSuspended ==
    \/ NextAdmin
    \/ SubmitAnyTime

SpecSuspended == InitAdmin /\ [][NextSuspended]_vars

(***************************************************************************)
(* Three players at the buy-in who bet, call and check, and who leave at    *)
(* any moment of the hand                                                  *)
(***************************************************************************)
InitThree ==
    /\ table = SeatedTable(<<DefaultBuyIn, DefaultBuyIn, DefaultBuyIn>>)
    /\ hand_limit = 1
    /\ InitRest

\* the player who is asked checks, calls or bets half the buy-in, whichever
\* the street allows
SubmitBetting ==
    /\ pc = "poll"
    /\ LET p == table.players[local.i]
       IN /\ p.human_controlled
          /\ incoming_actions[p.id] = NoAction
          /\ \E a \in {Check, Call, Bet(500)} :
                /\ Validate(a, gamehand, p, gamehand.street_contributions[gamehand.street][local.i]) = a
                /\ incoming_actions' = [incoming_actions EXCEPT ![p.id] = a]
    /\ UNCHANGED <<table, gamehand, incoming_meta_actions, pc, local, hand_limit, outbox,
                   client_metas, hist>>

NextThree ==
    \/ Driver
    \/ SubmitBetting
    \/ ClientLeave

SpecThree == InitThree /\ [][NextThree]_vars

(***************************************************************************)
(* The hand under the blinds the admin commands can set (any amount, zero  *)
(* included, the big blind not above the small one included), with players *)
(* who answer every prompt with an action the street allows and who may    *)
(* leave; every step that can be taken is taken in the end                 *)
(***************************************************************************)
AdminBlinds == {0, DefaultSmallBlind, DefaultBigBlind}

InitAnyBlinds ==
    /\ \E sb \in AdminBlinds : \E bb \in AdminBlinds :
          table = [SeatedTable(<<DefaultBuyIn, DefaultBuyIn>>) EXCEPT
                      !.small_blind = sb, !.big_blind = bb, !.password = 7]
    /\ hand_limit = 1
    /\ InitRest

SpecFair == InitAnyBlinds /\ [][NextThree]_vars /\ WF_vars(NextThree)

(***************************************************************************)
(* The hand of SpecMeta's tables, some of whose players sit out from the   *)
(* start, with time passing: heart beats run out at any moment             *)
(***************************************************************************)
SpecSilent == InitMeta /\ [][NextHeart]_vars

(***************************************************************************)
(* Properties                                                              *)
(***************************************************************************)
\* the hand just finished was played and no Join or Leave was handled in it
QuietHandFinished == hist.finished /\ ~hist.disturbed

OthersMax(total, s) ==
    LET others == Seats \ {s}
    IN CHOOSE m \in {total[j] : j \in others} : \A j \in others : total[j] <= m

\* what the settlements of the finished hand pay to seat s
Paid(s) == SettledAmount(hist.settlements, s)

FinalLevels ==
    {Totals(gamehand)[s] : s \in {t \in ActiveSeats(table.players) : Totals(gamehand)[t] > 0}}

LevelBelow(L) ==
    IF \E x \in FinalLevels : x < L
    THEN CHOOSE x \in FinalLevels : x < L /\ \A y \in FinalLevels : y < L => y <= x
    ELSE 0

PotOf(L) ==
    SumOver([j \in Seats |-> Min(Totals(gamehand)[j], L) - Min(Totals(gamehand)[j], LevelBelow(L))],
            Seats)

\* the seats that tie for the pot of level L: still active, contributed at
\* least L, and no such seat has a better rank
Tied(L) ==
    LET E == {s \in ActiveSeats(table.players) : Totals(gamehand)[s] >= L}
    IN {s \in E : \A t \in E : hist.rank[s] >= hist.rank[t]}

\* the tied seats before s in hand order from (button_idx + 1) mod 9
TiedBefore(s, L) ==
    LET start == (hist.button + 1) % NumSeats
    IN Cardinality({w \in Tied(L) : HandOrder(w, start) < HandOrder(s, start)})

TieShare(s, L) ==
    IF s \in Tied(L)
    THEN (PotOf(L) \div Cardinality(Tied(L)))
         + (IF TiedBefore(s, L) < PotOf(L) % Cardinality(Tied(L)) THEN 1 ELSE 0)
    ELSE 0

\* C4: tied pots -- every pot is split evenly among the seats that tie for
\* it, and the first `remainder` of them in hand order from
\* (button_idx + 1) mod 9 receive one chip more; a seat is paid the sum of its
\* shares of the pots
C4_TiedPots ==
    /\ (hist.finished /\ NumConfigs(table.configs) > 0) =>
        \A s \in Seats :
            Paid(s) = SumOver([L \in FinalLevels |-> TieShare(s, L)], FinalLevels)
    /\ \* stacks 500/1000/1000 all-in, seats 0 and 1 tie above seat 2
       (/\ hist.finished
        /\ ActiveSeats(table.players) = {0, 1, 2}
        /\ Totals(gamehand)[0] = 500 /\ Totals(gamehand)[1] = 1000 /\ Totals(gamehand)[2] = 1000
        /\ hist.rank[0] = hist.rank[1] /\ hist.rank[1] > hist.rank[2])
       => (Paid(0) = 750 /\ Paid(1) = 1750 /\ Paid(2) = 0)

\* a pot that two tied seats cannot split evenly
C4_Witness ==
    /\ hist.finished
    /\ \E L \in FinalLevels : Cardinality(Tied(L)) = 2 /\ PotOf(L) % 2 = 1

\* the cards of a sequence of cards
CardsOf(cards) == {cards[k] : k \in 1 .. Len(cards)}

\* the game_state events the table in state t sends to the player of seat s
GameStatesTo(t, s) ==
    {m \in send_game_state(t, gamehand, TRUE, FALSE) :
        m.to = t.configs[t.players[s].id].player_addr}

\* the table with other hole cards in seat x
WithHoleCards(t, x, cards) == [t EXCEPT !.players[x].hole_cards = cards]

\* C5: hole-card privacy -- a game_state event goes to the player of the seat
\* it names and carries that seat's hole cards or none, never a card of another
\* seat; and the game_state events for a player are the same whatever the hole
\* cards in another seat are
C5_HoleCardPrivacy ==
    /\ \A m \in outbox : m.msg_type = "game_state" =>
          LET s == m.body.your_index
          IN /\ table.players[s].id # 0
             /\ table.configs[table.players[s].id].player_addr = m.to
             /\ m.body.hole_cards \in {<<>>, table.players[s].hole_cards}
             /\ \A x \in Seats \ {s} :
                   CardsOf(m.body.hole_cards) \cap CardsOf(table.players[x].hole_cards) = {}
    /\ \A s \in Occupied(table.players) : \A x \in Occupied(table.players) \ {s} :
          \A cards \in {<<>>, <<51, 52>>} :
             table.configs[table.players[s].id].present =>
                GameStatesTo(WithHoleCards(table, x, cards), s) = GameStatesTo(table, s)

\* a game_state event carries the hole cards of its recipient while another
\* seat holds cards too
C5_Witness ==
    \E m \in outbox :
        /\ m.msg_type = "game_state"
        /\ m.body.hole_cards # <<>>
        /\ \E x \in Seats \ {m.body.your_index} : Len(table.players[x].hole_cards) = 2

\* C6: blinds are posted exactly once per hand -- one PostSmallBlind of
\* min(small_blind, money) by the first seat asked and then one PostBigBlind of
\* min(big_blind, money) by the second, before any voluntary action, and no
\* blind on any later turn; a finished hand has seen both
C6_BlindsOnce ==
    /\ hist.sb_posts <= 1
    /\ hist.bb_posts <= 1
    /\ hist.finished => (hist.sb_posts = 1 /\ hist.bb_posts = 1)
    /\ hist.applied.seat # NumSeats =>
          /\ (hist.turns = 1) <=> (hist.applied.action.type = "PostSmallBlind")
          /\ (hist.turns = 2) <=> (hist.applied.action.type = "PostBigBlind")
          /\ hist.applied.action.type = "PostSmallBlind" =>
                hist.applied.action.amount = Min(table.small_blind, hist.applied.money)
          /\ hist.applied.action.type = "PostBigBlind" =>
                hist.applied.action.amount = Min(table.big_blind, hist.applied.money)

\* C7: a seat that sits out starts the hand active and posts the blind it
\* owes; on any other turn it is given SitOut and is deactivated, never a
\* Check, Call or Bet, also when it began to sit out in the middle of the hand;
\* it is paid nothing of the pot it contributed to
C7_SittingOut ==
    /\ (pc = "street_start" /\ gamehand.street = "Preflop") =>
          \A s \in Occupied(table.players) :
             (table.players[s].is_sitting_out /\ table.players[s].money # 0)
                => table.players[s].is_active
    /\ (hist.applied.seat # NumSeats /\ hist.applied.is_sitting_out) =>
          /\ hist.applied.action.type =
                (IF hist.turns = 1 THEN "PostSmallBlind"
                 ELSE IF hist.turns = 2 THEN "PostBigBlind" ELSE "SitOut")
          /\ hist.applied.action.type = "SitOut" =>
                ~table.players[hist.applied.seat].is_active
    /\ hist.finished =>
          \A s \in hist.folded : Paid(s) = 0

\* a seat that began to sit out during the hand is given SitOut on the flop
\* while it faces a bet
C7_Witness ==
    /\ hist.applied.seat # NumSeats
    /\ hist.applied.is_sitting_out
    /\ hist.applied.action.type = "SitOut"
    /\ gamehand.street = "Flop"
    /\ hist.applied.current_bet > hist.applied.cumulative

\* the action applied is legal for the seat it is applied to
AppliedIsLegal ==
    hist.applied.seat # NumSeats =>
        LET a == hist.applied
        IN /\ a.action.type = "Check" => a.current_bet <= a.cumulative
           /\ a.action.type = "Call" => a.current_bet > a.cumulative
           /\ a.action.type = "Bet" =>
                 (a.current_bet < a.action.amount /\ a.action.amount <= a.money + a.cumulative)
           /\ (a.submitted.type = "Fold" /\ a.current_bet <= a.cumulative) =>
                 (a.action.type = "Check" /\ table.players[a.seat].is_active)

\* a poll takes a submission out of the mailbox and the turn goes on
RefusedSubmission ==
    /\ pc = "poll"
    /\ pc' = "poll"
    /\ \E id \in AllIds : incoming_actions[id] # NoAction /\ incoming_actions'[id] = NoAction

\* C8: only legal actions are applied -- Check with nothing to call, Call with
\* something to call, Bet(v) with current_bet < v <= money + contribution, a
\* Fold with nothing to face as a Check; and a refused submission changes no
\* money, contribution, current_bet or activity flag
C8_OnlyLegalActions ==
    /\ []AppliedIsLegal
    /\ [][RefusedSubmission =>
            /\ \A s \in Seats :
                  /\ table'.players[s].money = table.players[s].money
                  /\ table'.players[s].is_active = table.players[s].is_active
            /\ gamehand'.street_contributions = gamehand.street_contributions
            /\ gamehand'.current_bet = gamehand.current_bet]_vars

\* a Fold with no bet to face is applied as a Check and reported as invalid
C8_Witness ==
    /\ hist.applied.seat # NumSeats
    /\ hist.applied.submitted.type = "Fold"
    /\ hist.applied.action.type = "Check"
    /\ \E m \in outbox : m.msg_type = "error"

\* with one active seat left nobody is prompted and no street is dealt
NoPlayWithOneActive ==
    Cardinality(ActiveSeats(table.players)) = 1 => pc \notin {"poll", "transition"}

\* the one seat left in the finished hand is paid every chip contributed
LastSeatTakesAll ==
    (hist.finished /\ Cardinality(ActiveSeats(table.players)) = 1) =>
        \A s \in ActiveSeats(table.players) :
            Paid(s) = SumOver(Totals(gamehand), Seats)

\* heads-up with blinds 4/8 and 1000 chips each: the small blind folds preflop
InstantFold ==
    (/\ hist.finished
     /\ Occupied(table.players) = {0, 1}
     /\ hist.money_before = 2 * DefaultBuyIn
     /\ Totals(gamehand)[0] = DefaultBigBlind
     /\ Totals(gamehand)[1] = DefaultSmallBlind
     /\ hist.folded = {1})
    => (table.players[0].money = 1004 /\ table.players[1].money = 996)

TimedOut ==
    /\ hist.applied.seat # NumSeats
    /\ hist.applied.action.type = "SitOut"
    /\ hist.applied.submitted = NoAction
    /\ ~hist.applied.is_sitting_out

\* the queue holds a SitOut or ImBack of the player and the last one is `type`
LastMetaIs(q, id, type) ==
    \E k \in 1 .. Len(q) :
        /\ q[k].id = id /\ q[k].type = type
        /\ \A j \in (k + 1) .. Len(q) : ~(q[j].id = id /\ q[j].type \in {"SitOut", "ImBack"})

\* a step in which the queue of meta-actions is drained
DrainStep == incoming_meta_actions # <<>> /\ incoming_meta_actions' = <<>>

TimeoutState ==
    /\ local.attempts <= MaxAttempts
    /\ (pc = "poll" /\ ~table.players[local.i].human_controlled) => local.attempts = 0
    /\ TimedOut =>
          /\ local.attempts = MaxAttempts
          /\ table.players[hist.applied.seat].human_controlled
          /\ ~table.players[hist.applied.seat].is_active
          /\ \E k \in 1 .. Len(incoming_meta_actions) :
                incoming_meta_actions[k] =
                    MetaAction("SitOut", table.players[hist.applied.seat].id, "", 0)

\* C10: action timeout -- after 45 polls without a valid action of a human
\* seat SitOut is applied and a SitOut meta-action for the player is queued;
\* the seat is deactivated, is_sitting_out is true after the next drain of the
\* queue and becomes false only when an ImBack of the player is drained; a
\* bot's polls are not counted
C10_ActionTimeout ==
    /\ []TimeoutState
    /\ [][(pc = "poll" /\ local.attempts = MaxAttempts /\ pc' # "poll") => TimedOut']_vars
    /\ [][\A s \in Occupied(table.players) :
            LET id == table.players[s].id
            IN /\ (DrainStep /\ LastMetaIs(incoming_meta_actions, id, "SitOut")
                      /\ table'.players[s].id = id)
                   => table'.players[s].is_sitting_out
               /\ (table.players[s].is_sitting_out /\ table'.players[s].id = id
                      /\ ~table'.players[s].is_sitting_out)
                   => (DrainStep /\ LastMetaIs(incoming_meta_actions, id, "ImBack"))]_vars

\* the 45th poll of a human found nothing: SitOut is applied and queued
C10_Witness ==
    /\ TimedOut
    /\ local.attempts = MaxAttempts
    /\ Len(incoming_meta_actions) > 0
    /\ ~table.players[hist.applied.seat].is_sitting_out

\* a poll of a human's turn finds a submission in the mailbox and refuses it
RefusedPoll ==
    /\ RefusedSubmission
    /\ table.players[local.i].human_controlled

\* C11: an invalid action of a human does not consume the timeout budget --
\* a poll that refuses a submission leaves the attempt counter as it was, so
\* the counter is the number of polls of the turn that found the mailbox
\* empty, and a time-out happens only after 45 such polls
C11_InvalidNotCounted ==
    /\ [][RefusedPoll => local'.attempts = local.attempts]_vars
    /\ [](TimedOut => hist.empty_polls = MaxAttempts)

\* the messages of a step that go to players (not to the lobby)
PlayerMessages(out) == {m \in out : m.to # HubId}

\* the ids of the senders of the queued meta-actions
Senders(q) == {q[k].id : k \in 1 .. Len(q)}

\* the hand loop drains a queue that holds Admin commands only
AdminDrain ==
    /\ pc = "between"
    /\ pc' # "between"
    /\ incoming_meta_actions # <<>>
    /\ \A k \in 1 .. Len(incoming_meta_actions) : incoming_meta_actions[k].type = "Admin"

\* C12: admin gating -- Admin commands of senders other than admin_id change
\* nothing of the table (settings, seats, money) and are answered with error
\* not_admin to the requester only, on a table with or without password; the
\* admin's commands on a table without password change nothing and are
\* answered with error not_private only
C12_AdminGating ==
    [][AdminDrain =>
        /\ (table.admin_id \notin Senders(incoming_meta_actions)) =>
              /\ table' = table
              /\ PlayerMessages(outbox') =
                    {Msg(table.configs[id].player_addr, "error", ErrorBody("not_admin")) :
                        id \in Senders(incoming_meta_actions)}
        /\ (Senders(incoming_meta_actions) = {table.admin_id} /\ table.password = 0) =>
              /\ table' = table
              /\ PlayerMessages(outbox') =
                    {Msg(table.configs[table.admin_id].player_addr, "error",
                         ErrorBody("not_private"))}]_vars

\* a command of a player who is not the admin was refused on a table without
\* password: the answer is not_admin
C12_Witness ==
    /\ pc = "play_one_hand"
    /\ table.password = 0
    /\ \E m \in outbox : m.msg_type = "error" /\ m.body = ErrorBody("not_admin")

\* the admin_success event the admin gets for a command
SuccessTo(t, updated, val) ==
    {Msg(t.configs[t.admin_id].player_addr, "admin_success", AdminSuccess(updated, val))}

\* C13: an Admin command of the admin on a password-protected table, handled
\* between hands, takes effect and is answered with admin_success to the
\* requester only -- SmallBlind(v), BigBlind(v), BuyIn(v) and SetPassword(s)
\* set that one field and nothing else, Restart sets the money of every seated
\* player to the current buy_in and nothing else
C13_AdminEffect ==
    [][(/\ AdminDrain
        /\ Len(incoming_meta_actions) = 1
        /\ incoming_meta_actions[1].id = table.admin_id
        /\ table.password # 0) =>
         LET m == incoming_meta_actions[1]
         IN /\ m.cmd = "SmallBlind" =>
                  /\ table' = [table EXCEPT !.small_blind = m.val]
                  /\ PlayerMessages(outbox') = SuccessTo(table, "small_blind", m.val)
            /\ m.cmd = "BigBlind" =>
                  /\ table' = [table EXCEPT !.big_blind = m.val]
                  /\ PlayerMessages(outbox') = SuccessTo(table, "big_blind", m.val)
            /\ m.cmd = "BuyIn" =>
                  /\ table' = [table EXCEPT !.buy_in = m.val]
                  /\ PlayerMessages(outbox') = SuccessTo(table, "buy_in", m.val)
            /\ m.cmd = "SetPassword" =>
                  /\ table' = [table EXCEPT !.password = m.val]
                  /\ PlayerMessages(outbox') = SuccessTo(table, "password", m.val)
            /\ m.cmd = "Restart" =>
                  /\ \A s \in Seats :
                        table'.players[s] =
                            IF table.players[s].id = 0 THEN table.players[s]
                            ELSE [table.players[s] EXCEPT !.money = table.buy_in]
                  /\ table' = [table EXCEPT !.players = table'.players]
                  /\ PlayerMessages(outbox') = SuccessTo(table, "game_restarted", 0)]_vars

\* Restart was executed after the buy-in had been changed: every seated
\* player has the new buy-in
C13_Witness ==
    /\ pc = "play_one_hand"
    /\ outbox = SuccessTo(table, "game_restarted", 0)
    /\ table.buy_in # DefaultBuyIn
    /\ \A s \in Occupied(table.players) : table.players[s].money = table.buy_in

IsAdminMsg(m) == m.type = "Admin"

\* a step of the driver inside a hand (not a step of a client)
InHandStep ==
    /\ pc \in {"street_loop", "poll"}
    /\ client_metas' = client_metas
    /\ ~\E id \in AllIds : incoming_actions[id] = NoAction /\ incoming_actions'[id] # NoAction

\* the chips on the table and in the pot are those the hand started with
HandMoneyKept ==
    pc \in {"street_start", "street_loop", "poll", "transition", "finish_hand"} =>
        TableMoney(table.players) + SumOver(Totals(gamehand), Seats) = hist.money_before

\* the value of the last command cmd of the admin among the first n entries
\* of the queue, or default if there is none
LastVal(q, cmd, n, default) ==
    LET ks == {k \in 1 .. n : q[k].id = table.admin_id /\ q[k].cmd = cmd}
    IN IF ks = {} THEN default
       ELSE q[CHOOSE k \in ks : \A j \in ks : j <= k].val

\* C14: Admin commands never take effect during a hand -- a drain inside a
\* hand puts them back in their order, changes no setting, seat or chip and
\* sends no reply; the first drain between hands takes every one of them out
\* of the queue and executes them in the order they were sent
C14_AdminDeferred ==
    /\ []HandMoneyKept
    /\ [][InHandStep =>
            /\ incoming_meta_actions' = SelectSeq(incoming_meta_actions, IsAdminMsg)
            /\ table'.small_blind = table.small_blind
            /\ table'.big_blind = table.big_blind
            /\ table'.buy_in = table.buy_in
            /\ table'.password = table.password
            /\ Occupied(table'.players) = Occupied(table.players)
            /\ \A m \in outbox' :
                  /\ m.msg_type # "admin_success"
                  /\ m.msg_type = "error" => m.body = ErrorBody("invalid_action")]_vars
    /\ [][AdminDrain =>
            LET q == incoming_meta_actions
                restarts == {k \in 1 .. Len(q) :
                                q[k].id = table.admin_id /\ q[k].cmd = "Restart"}
                last == CHOOSE k \in restarts : \A j \in restarts : j <= k
            IN /\ incoming_meta_actions' = <<>>
               /\ table'.small_blind = LastVal(q, "SmallBlind", Len(q), table.small_blind)
               /\ table'.big_blind = LastVal(q, "BigBlind", Len(q), table.big_blind)
               /\ table'.buy_in = LastVal(q, "BuyIn", Len(q), table.buy_in)
               /\ \A s \in Occupied(table.players) :
                     table'.players[s].money =
                        IF restarts = {} THEN table.players[s].money
                        ELSE LastVal(q, "BuyIn", last, table.buy_in)]_vars

\* BuyIn and Restart of the admin, sent during the hand, are still queued in
\* that order on the flop and nothing has changed
C14_Witness ==
    /\ pc = "poll"
    /\ gamehand.street = "Flop"
    /\ Len(incoming_meta_actions) = 2
    /\ incoming_meta_actions[1].cmd = "BuyIn"
    /\ incoming_meta_actions[2].cmd = "Restart"
    /\ table.buy_in = DefaultBuyIn
    /\ hist.money_before = 2 * DefaultBuyIn

\* the hand loop drains a queue that holds one meta-action
SingleDrain ==
    /\ pc = "between"
    /\ pc' # "between"
    /\ Len(incoming_meta_actions) = 1

\* the Returned messages a step sends to the lobby
ReturnedIn(out) == {m \in out : m.msg_type = "Returned"}

\* the Join is refused: nothing of the table changes and the lobby is told why
Rejected(id, reason) ==
    /\ table' = table
    /\ ReturnedIn(outbox') = {Returned(id, reason)}
    /\ PlayerMessages(outbox') = {}

Seated(t, id) == \E s \in Seats : t.players[s].id = id

\* C15: a Join on a table with password succeeds only with the matching
\* password -- a different password is refused with InvalidPassword, none with
\* MissingPassword; a refused Join seats nobody, inserts no config and is
\* reported to the lobby as Returned with the reason; on a table without
\* password no Join fails the password check
C15_JoinPassword ==
    [][(SingleDrain /\ incoming_meta_actions[1].type = "Join") =>
         LET id == incoming_meta_actions[1].id
             given == incoming_meta_actions[1].val
         IN /\ (table.password # 0 /\ given # 0 /\ given # table.password) =>
                  Rejected(id, "InvalidPassword")
            /\ (table.password # 0 /\ given = 0) => Rejected(id, "MissingPassword")
            /\ (table.password # 0 /\ ~Seated(table, id) /\ Seated(table', id)) =>
                  given = table.password
            /\ (table.password = 0 \/ given = table.password) =>
                  \A m \in ReturnedIn(outbox') :
                      m.body.reason \notin {"InvalidPassword", "MissingPassword"}]_vars

\* a Join with a wrong password was refused
C15_Witness ==
    /\ pc = "play_one_hand"
    /\ \E id \in HumanIds :
          /\ Returned(id, "InvalidPassword") \in outbox
          /\ ~Seated(table, id)
          /\ ~table.configs[id].present

\* the empty seat with the lowest index
LowestEmpty(t) ==
    CHOOSE s \in Seats \ Occupied(t.players) :
        \A x \in Seats \ Occupied(t.players) : s <= x

IsFull(t) == Cardinality(Occupied(t.players)) >= t.max_players

\* C16: the occupied seats never exceed max_players -- a human or a bot is
\* added only when fewer than max_players seats are occupied and takes the
\* empty seat with the lowest index; on a full table the add fails with
\* GameIsFull and changes nothing
C16_MaxPlayers ==
    /\ [](Cardinality(Occupied(table.players)) <= table.max_players)
    /\ [][SingleDrain =>
            LET m == incoming_meta_actions[1]
                new == Occupied(table'.players) \ Occupied(table.players)
            IN /\ new # {} => (~IsFull(table) /\ new = {LowestEmpty(table)})
               /\ (/\ IsFull(table) /\ m.type = "Join" /\ ~Seated(table, m.id)
                   /\ (table.password = 0 \/ m.val = table.password)) =>
                     Rejected(m.id, "GameIsFull")
               /\ (/\ IsFull(table) /\ m.type = "Admin" /\ m.cmd = "AddBot"
                   /\ m.id = table.admin_id /\ table.password # 0) =>
                     /\ table' = table
                     /\ PlayerMessages(outbox') =
                           {Msg(table.configs[m.id].player_addr, "error",
                                ErrorBody("unable_to_add_bot"))}]_vars

\* a Join was refused because the table is full
C16_Witness ==
    /\ pc = "play_one_hand"
    /\ Cardinality(Occupied(table.players)) = table.max_players
    /\ \E id \in HumanIds : Returned(id, "GameIsFull") \in outbox /\ ~Seated(table, id)

\* a Join with the right password for a player who has a seat is next in
\* the queue at a point where the queue is drained
RejoinQueued ==
    /\ pc \in {"between", "street_loop", "poll"}
    /\ Len(incoming_meta_actions) = 1
    /\ incoming_meta_actions[1].type = "Join"
    /\ Seated(table, incoming_meta_actions[1].id)
    /\ (table.password = 0 \/ incoming_meta_actions[1].val = table.password)

\* the drain of the queue at the driver's position
AfterDrain(w) == handle_meta_actions(w, pc = "between", gamehand, pc # "between")

Leaving ==
    {incoming_meta_actions[k].id : k \in
        {j \in 1 .. Len(incoming_meta_actions) : incoming_meta_actions[j].type = "Leave"}}
    \cap {id \in AllIds : table.configs[id].present}

\* a step of the driver that drains the queue
DriverDrain ==
    /\ pc \in {"between", "street_loop", "poll"}
    /\ client_metas' = client_metas
    /\ ~\E id \in AllIds : incoming_actions[id] = NoAction /\ incoming_actions'[id] # NoAction
    /\ (pc = "poll" => local.attempts < MaxAttempts)

\* processing Leave(id) removes the config of id and no other config
LeaveRemovesConfig ==
    DriverDrain =>
        \A id \in AllIds :
            (table.configs[id].present /\ ~table'.configs[id].present) <=> id \in Leaving

\* the player stays in the seat until the sweep: a poll empties no seat, and
\* after the top of the street loop or of the hand loop no seat is left
\* without a config
SeatKeptUntilSweep ==
    /\ (DriverDrain /\ pc = "poll") =>
          \A s \in Seats : table'.players[s].id = table.players[s].id
    /\ (DriverDrain /\ pc # "poll") =>
          /\ Leavers(table') = {}
          /\ \A s \in Occupied(table.players) :
                table'.players[s].id = 0 <=> ~table'.configs[table.players[s].id].present

\* the counters of play_street count the seats that are active and all-in
CountersExact ==
    pc \in {"street_loop", "poll"} =>
        /\ local.num_active = Cardinality(ActiveSeats(table.players))
        /\ local.num_all_in =
              Cardinality({s \in Occupied(table.players) : is_all_in(table.players[s])})

\* the chips of a seat that is emptied during the hand stay in the pot
LeaverChipsStay ==
    (DriverDrain /\ pc # "between") =>
        \A s \in Occupied(table.players) :
            table'.players[s].id = 0 =>
                Totals(gamehand')[s] = Totals(gamehand)[s]

\* a Leave brings the hand down to one active seat: the hand ends
LeaveEndsHand ==
    (DriverDrain /\ pc = "street_loop" /\ Leaving # {}
        /\ Cardinality(ActiveSeats(table'.players)) = 1) => pc' = "finish_hand"

\* the seat left in a hand a player walked out of is paid every chip of the pot
LeftPotToLast ==
    (hist.finished /\ hist.disturbed /\ Cardinality(ActiveSeats(table.players)) = 1) =>
        \A s \in ActiveSeats(table.players) :
            Paid(s) = SumOver(Totals(gamehand), Seats)

LeavingUnknown ==
    {incoming_meta_actions[k].id : k \in
        {j \in 1 .. Len(incoming_meta_actions) : incoming_meta_actions[j].type = "Leave"}}
    \ {id \in AllIds : table.configs[id].present}

\* the addresses of the players who remain when the ids of L have left
Remaining(L) ==
    {table.configs[id].player_addr :
        id \in {j \in AllIds \ L : table.configs[j].present /\ table.configs[j].player_addr # 0
                                      /\ Seated(table, j)}}

\* C19: when Leave(id) of a player with a config is processed, player_left
\* with the leaver's name is delivered to every remaining seated player that
\* has a recipient and the lobby receives Returned with reason Left; a Leave
\* for an id without config sends nothing
C19_PlayerLeft ==
    [][DriverDrain =>
        /\ \A id \in Leaving :
              /\ Returned(id, "Left") \in outbox'
              /\ \A addr \in Remaining(Leaving) :
                    Msg(addr, "player_left", [name |-> table.configs[id].name]) \in outbox'
        /\ \A id \in LeavingUnknown \ Leaving :
              /\ Returned(id, "Left") \notin outbox'
              /\ \A m \in outbox' : m.msg_type # "player_left"]_vars

\* a hand is in progress or has just been paid out
InHand == pc \in {"street_start", "street_loop", "poll", "transition", "finish_hand"}

\* the table without the players who joined during the hand
WithoutJoined(t) ==
    [t EXCEPT !.players = [s \in Seats |-> IF s \in hist.joined THEN NoPlayer ELSE t.players[s]]]

\* a Join of a player without seat, with the right password, is drained
\* during the hand and the table is not full
JoinInHand ==
    /\ DriverDrain
    /\ pc # "between"
    /\ Len(incoming_meta_actions) = 1
    /\ incoming_meta_actions[1].type = "Join"
    /\ ~Seated(table, incoming_meta_actions[1].id)
    /\ incoming_meta_actions[1].val = table.password
    /\ ~IsFull(table)

\* the seats of the players who joined during the hand and have not left
Joiners == hist.joined \cap Occupied(table.players)

\* the joiner sits in the hand without taking part in it
JoinerOutOfHand ==
    \A s \in Joiners :
        /\ (InHand \/ hist.finished) =>
              /\ ~table.players[s].is_active
              /\ table.players[s].hole_cards = <<>>
              /\ table.players[s].money = table.buy_in
              /\ table.players[s].last_action = NoAction
        /\ pc = "poll" => local.i # s
        /\ InHand => gamehand.index_to_act # s
        /\ hist.applied.seat # s
        /\ hist.finished => Paid(s) = 0

\* what the driver reads of the seats is what it reads with the joiner's
\* seat empty: the seats in the hand, the next seat to ask, the counters,
\* and at the end of the hand the settlements and the money of the others
JoinerNotSeen ==
    (InHand /\ hist.joined # {}) =>
        LET t0 == WithoutJoined(table)
        IN /\ ActiveSeats(table.players) = ActiveSeats(t0.players)
           /\ \A i \in Seats : SkipTo(table.players, i) = SkipTo(t0.players, i)
           /\ pc \in {"street_loop", "poll"} =>
                 /\ local.num_active = Cardinality(ActiveSeats(t0.players))
                 /\ local.num_all_in =
                       Cardinality({s \in Occupied(t0.players) : is_all_in(t0.players[s])})
           /\ pc = "finish_hand" =>
                 \A rank \in RankChoices(table.players) :
                     LET a == finish_hand(table, gamehand, rank)
                         b == finish_hand(t0, gamehand, rank)
                     IN /\ a.settlements = b.settlements
                        /\ \A s \in Seats \ hist.joined :
                              a.t.players[s] = b.t.players[s]

\* C20: a player who joins while a hand is in progress is seated at once in
\* the lowest empty seat with money = buy_in, but takes no part in the hand --
\* inactive, no hole cards, never prompted, puts nothing in, wins nothing, not
\* counted in num_active -- and the hand goes on for the others as it does
\* with that seat empty
C20_JoinMidHand ==
    /\ [][JoinInHand =>
            LET s == LowestEmpty(table)
            IN /\ table'.players[s].id = incoming_meta_actions[1].id
               /\ table'.players[s].money = table.buy_in
               /\ s \in hist'.joined
               /\ \A x \in hist.joined :
                     gamehand'.street_contributions = gamehand.street_contributions
                        \/ hist'.applied.seat # x]_vars
    /\ []JoinerOutOfHand
    /\ []JoinerNotSeen

\* the third player joined during the hand and the hand was played to a
\* showdown by the two others
C20_Witness ==
    /\ hist.finished
    /\ hist.joined = {2}
    /\ table.players[2].id = 3
    /\ gamehand.street = "ShowDown"
    /\ Paid(0) + Paid(1) > 0

\* the hand loop handles one iteration and goes on or leaves
LoopTopStep == pc = "between" /\ pc' # "between"

\* hand_num changes only when a hand was played, then by one, and the loop is
\* left exactly when it finds hand_num above the limit
HandNumSteps ==
    /\ (table'.hand_num # table.hand_num) =>
         (pc = "finish_hand" /\ table'.hand_num = table.hand_num + 1)
    /\ (pc = "finish_hand" /\ pc' # "finish_hand") =>
         (table'.hand_num = table.hand_num + 1)
    /\ (LoopTopStep /\ table.hand_num > hand_limit) => (pc' = "game_over")
    /\ (LoopTopStep /\ table.hand_num <= hand_limit) => (pc' = "play_one_hand")

\* C21: hand_num starts at 1 and grows by exactly 1 with every hand that is
\* played and never otherwise; play(hand_limit = N) leaves the loop at the
\* first iteration that finds hand_num > N, so that with two funded seats that
\* keep acting N hands have been played and hand_num = N + 1 on exit
C21_HandLimit ==
    /\ [](table.hand_num = hist.played + 1)
    /\ [](pc = "game_over" => table.hand_num = hand_limit + 1 /\ hist.played = hand_limit)
    /\ [][HandNumSteps]_vars

\* play(3) has ended after three hands
C21_Witness ==
    pc = "game_over" /\ hand_limit = 3 /\ hist.played = 3 /\ table.hand_num = 4

\* the hand loop leaves, and not because of the hand limit
NonHumanExit ==
    LoopTopStep /\ pc' = "game_over" /\ ~HandLimitReached(table', hand_limit)

\* C22: the hand loop exits once no human has been seated in
\* NON_HUMAN_HANDS_LIMIT consecutive hands, whatever the hand limit: a hand
\* with a human seated does not count and interrupts the run, so that the
\* loop leaves for want of humans only when the iterations in a row that
\* found no human exceed the limit
C22_NonHumanLimit ==
    [][/\ NonHumanExit => (hist'.run > NON_HUMAN_HANDS_LIMIT)
       /\ (LoopTopStep /\ hist'.run > NON_HUMAN_HANDS_LIMIT) => (pc' = "game_over")]_vars

\* the player of seat s may hold the button
ButtonEligible(t, s) ==
    t.players[s].id # 0 /\ ~t.players[s].is_sitting_out /\ t.players[s].money > 0

\* seat s comes before seat x in the circular order that starts after seat b
BeforeFrom(b, s, x) == HandOrder(s, NextSeat(b)) < HandOrder(x, NextSeat(b))

\* a played hand ends
HandEnds == pc = "finish_hand" /\ pc' # "finish_hand"

\* the first seat after the button that may hold it is the new button
MovesToNext ==
    /\ pc' = "between"
    /\ ButtonEligible(table', table'.button_idx)
    /\ \A s \in Seats : BeforeFrom(table.button_idx, s, table'.button_idx)
                            => ~ButtonEligible(table', s)

RECURSIVE TimesButton(_, _)
TimesButton(b, s) ==
    IF b = <<>> THEN 0
    ELSE (IF Head(b) = s THEN 1 ELSE 0) + TimesButton(Tail(b), s)

\* the seats that may hold the button
EligibleSeats(t) == {s \in Seats : ButtonEligible(t, s)}

\* over any N consecutive played hands each of the k players who may hold
\* the button held it at most ceil(N / k) times; the hands of a run in which
\* nobody sits out
ButtonFairness ==
    LET k == Cardinality(EligibleSeats(table))
    IN (k > 0 /\ \A s \in Occupied(table.players) : ~table.players[s].is_sitting_out) =>
         \A a \in 1 .. Len(hist.buttons) : \A b \in a .. Len(hist.buttons) :
            \A s \in Occupied(table.players) :
               TimesButton(SubSeq(hist.buttons, a, b), s) <= ((b - a + 1) + k - 1) \div k

Evicted == {id \in AllIds : table.configs[id].present /\ ~table'.configs[id].present}

\* the ids the lobby is told of with reason HeartBeatFailed
HeartBeatFailures(out) ==
    {m.body.id : m \in {x \in ReturnedIn(out) : x.body.reason = "HeartBeatFailed"}}

\* C24: heart-beat eviction happens only at the top of an iteration of the
\* hand loop, never while a hand is in progress; the lobby gets one Returned
\* with reason HeartBeatFailed for every evicted config and for no other, and
\* the evicted player's seat is emptied in the same iteration
C24_HeartBeatEviction ==
    [][/\ (Evicted # {}) => LoopTopStep
       /\ HeartBeatFailures(outbox') = Evicted
       /\ \A id \in Evicted : ~Seated(table', id)
       /\ LoopTopStep =>
            \A id \in AllIds : (table.configs[id].present /\ ~table.configs[id].heart_beat)
                                  => id \in Evicted]_vars

\* an UpdateAddress for a player with a config is alone in the queue at a
\* point where the driver drains it
AddressQueued ==
    /\ pc \in {"between", "street_loop", "poll"}
    /\ Len(incoming_meta_actions) = 1
    /\ incoming_meta_actions[1].type = "UpdateAddress"
    /\ table.configs[incoming_meta_actions[1].id].present

\* the reconnect replaces the recipient and nothing else, and every player
\* with a recipient, the reconnected one at the new address, gets the state
ReconnectKeepsSeat ==
    AddressQueued =>
        LET id == incoming_meta_actions[1].id
            addr == incoming_meta_actions[1].val
            r == AfterDrain(World)
        IN /\ r.t.players = table.players
           /\ r.t = [table EXCEPT !.configs[id].player_addr = addr]
           /\ r.q = <<>>
           /\ ReturnedIn(r.out) = {}
           /\ \A j \in AllIds :
                 (r.t.configs[j].present /\ r.t.configs[j].player_addr # 0) =>
                    \E m \in r.out : /\ m.to = r.t.configs[j].player_addr
                                     /\ m.msg_type = "game_state"
                                     /\ Seated(table, j) => m.body.your_index = SeatOf(table.players, j)
           /\ \A m \in r.out : m.to # table.configs[id].player_addr

\* a session stops: nothing reaches the table; and a player whose session
\* has stopped loses config and seat only in the iteration of the hand loop
\* that finds the heart beat run out
DisconnectKeepsSeat ==
    /\ (hist'.disconnected \ hist.disconnected # {}) =>
         (table' = table /\ incoming_meta_actions' = incoming_meta_actions)
    /\ \A id \in hist.disconnected :
         /\ (table.configs[id].present /\ ~table'.configs[id].present) =>
              (LoopTopStep /\ ~table.configs[id].heart_beat)
         /\ (Seated(table, id) /\ ~Seated(table', id)) =>
              (LoopTopStep /\ ~table.configs[id].heart_beat)
         /\ Seated(table', id) =>
              SeatOf(table'.players, id) = SeatOf(table.players, id)

\* C25: a session that stops on a ping time-out sends no Leave, so config,
\* seat and money stay until the heart beat of the player has run out; the
\* UpdateAddress of a reconnect with the same id replaces only the recipient
\* (seat index, money, is_active, is_sitting_out and hole cards are unchanged)
\* and the game state is broadcast
C25_Reconnect ==
    /\ []ReconnectKeepsSeat
    /\ [][DisconnectKeepsSeat]_vars

\* the second player, holding cards and having posted a blind, lost the
\* session and connects again during the hand
C25_Witness ==
    /\ AddressQueued
    /\ pc \in {"street_loop", "poll"}
    /\ incoming_meta_actions[1].id = 2
    /\ Len(table.players[1].hole_cards) = 2
    /\ table.players[1].money < DefaultBuyIn
    /\ AfterDrain(World).t.configs[2].player_addr = NewAddress(2)

\* the meta-action m is in the queue q
InQueue(q, m) == \E k \in 1 .. Len(q) : q[k] = m

\* C26: the meta-actions of one player id take effect in the order in which
\* they were enqueued, during a hand as between hands: no drain of the queue
\* handles a meta-action of an id and leaves an earlier one of that id waiting
C26_PerPlayerOrder ==
    [][DriverDrain =>
         \A k \in 1 .. Len(incoming_meta_actions) : \A l \in 1 .. Len(incoming_meta_actions) :
            (/\ k < l
             /\ incoming_meta_actions[k].id = incoming_meta_actions[l].id
             /\ InQueue(incoming_meta_actions', incoming_meta_actions[k]))
            => InQueue(incoming_meta_actions', incoming_meta_actions[l])]_vars

\* a step within a hand
WithinHand == InHand /\ pc' \in {"street_start", "street_loop", "poll", "transition", "finish_hand"}

\* what seat i has put in on street st
Contribution(gh, st, i) == gh.street_contributions[st][i]

\* the contributions of a step of the hand: none decreases, the street that
\* begins starts from 0, and one that grows grows on the street being played,
\* by what leaves the money of the player of that seat in the same step
ContributionStep ==
    WithinHand =>
        /\ \A st \in BettingStreets : \A i \in Seats :
              /\ Contribution(gamehand', st, i) >= Contribution(gamehand, st, i)
              /\ Contribution(gamehand', st, i) # Contribution(gamehand, st, i) =>
                    /\ st = gamehand.street
                    /\ pc \in {"street_loop", "poll"}
                    /\ table'.players[i].id = table.players[i].id
                    /\ Contribution(gamehand', st, i) - Contribution(gamehand, st, i)
                          = table.players[i].money - table'.players[i].money
        /\ (pc = "street_start" /\ pc' = "street_loop") =>
              gamehand'.street_contributions[gamehand.street] = ZeroContributions

\* C27: within a hand street_contributions[s][i] never decreases; it is 0 when
\* street s begins and afterwards changes only by the amount that is taken
\* from the money of seat i in the same step
C27_ContributionMonotone == [][ContributionStep]_vars

\* a player who had already put chips in on this street has raised
C27_Witness ==
    /\ pc = "street_loop"
    /\ hist.applied.seat \in Seats
    /\ hist.applied.action.type = "Bet"
    /\ hist.applied.cumulative > 0
    /\ Contribution(gamehand, gamehand.street, hist.applied.seat) = hist.applied.action.amount

\* handle_meta_actions locks the queue in its first statement and the guard
\* lives until the function returns: whatever it sends to a recipient or to
\* the lobby, it sends holding the lock of the queue
SentHoldingQueueLock == AfterDrain(World).out

\* C28: the driver holds neither the lock of the mailbox nor the lock of the
\* queue while it sleeps or sends: in a step in which the driver sends, none
\* of the messages is sent with an inbox locked
C28_LockDiscipline == [][DriverDrain => SentHoldingQueueLock = {}]_vars

\* a step of the driver, as opposed to a step of a client
DriverStep == pc' # pc \/ local' # local

\* the driver starts a hand that is played
HandStart == pc = "play_one_hand" /\ pc' = "street_start"

\* the driver asks the human with this id for the action at the player's turn
ReadAtTurn(id) ==
    /\ pc = "poll"
    /\ DriverStep
    /\ LET w1 == AfterDrain(World)
           p == w1.t.players[local.i]
       IN /\ p.id = id
          /\ p.human_controlled
          /\ AutoAction(p, w1.t.configs) = NoAction

\* a client writes: the entry of one id is replaced by the action written
MailboxWrite ==
    /\ ~DriverStep
    /\ incoming_actions' # incoming_actions

MailboxStep ==
    /\ MailboxWrite =>
          \E id \in HumanIds :
              /\ incoming_actions'[id] # NoAction
              /\ incoming_actions' = [incoming_actions EXCEPT ![id] = incoming_actions'[id]]
    /\ \A id \in HumanIds :
          /\ HandStart => incoming_actions'[id] = NoAction
          /\ ReadAtTurn(id) =>
                /\ incoming_actions'[id] = NoAction
                /\ hist'.applied.submitted = incoming_actions[id]
                      \/ (hist'.applied = NoApplied /\ pc' = "poll")
          /\ (DriverStep /\ ~HandStart /\ ~ReadAtTurn(id)) =>
                incoming_actions'[id] = incoming_actions[id]
    /\ (DriverStep /\ ~\E id \in HumanIds : ReadAtTurn(id)) =>
          hist'.applied.submitted = NoAction

\* C29: the mailbox holds one action per player id and a write replaces the
\* one that was there; the start of a played hand empties it; the action of a
\* human is removed when it is read at the player's turn, applied or refused;
\* no other step of the driver touches an entry, so an action written during
\* another seat's turn waits for the writer's own turn
C29_Mailbox == [][MailboxStep]_vars

\* on the flop or later a human's action has been read at the turn and applied
\* and that entry is empty again, while an action of another player, written
\* during this hand, is waiting for its writer's turn
C29_Witness ==
    /\ pc = "street_loop"
    /\ gamehand.street # "Preflop"
    /\ hist.applied.seat \in Seats
    /\ hist.applied.submitted # NoAction
    /\ incoming_actions[table.players[hist.applied.seat].id] = NoAction
    /\ \E id \in HumanIds : incoming_actions[id] # NoAction

\* the driver is between two hands: after finish_hand and the move of the
\* button, or after the drain at the top of the loop, before play_one_hand
BetweenHands == pc \in {"between", "play_one_hand"}

\* C30: between hands (the initial state included, and after the meta-actions
\* are handled) button_idx is in [0, 9) and points to an occupied seat whose
\* player is not sitting out
C30_ButtonInvariant ==
    BetweenHands =>
        /\ table.button_idx \in Seats
        /\ table.players[table.button_idx].id # 0
        /\ ~table.players[table.button_idx].is_sitting_out

\* the highest contribution of a seat to the current street
RECURSIVE MaxOf(_)
MaxOf(S) ==
    IF S = {} THEN 0
    ELSE LET x == CHOOSE y \in S : TRUE
             m == MaxOf(S \ {x})
         IN IF x > m THEN x ELSE m

HighestContribution ==
    MaxOf({Contribution(gamehand, gamehand.street, i) : i \in Seats})

BettingState == pc \in {"street_loop", "poll", "transition"}

CurrentBetStep ==
    (gamehand'.current_bet # gamehand.current_bet) =>
        LET a == hist'.applied.action
        IN \/ pc \in {"transition", "play_one_hand", "finish_hand"} /\ gamehand'.current_bet = 0
           \/ a.type = "PostSmallBlind" /\ gamehand'.current_bet = table.small_blind
           \/ a.type = "PostBigBlind" /\ gamehand'.current_bet = table.big_blind
           \/ /\ a.type = "Bet"
              /\ gamehand'.current_bet = a.amount
              /\ Contribution(gamehand', gamehand.street, hist'.applied.seat) = a.amount

\* with small_blind < big_blind no contribution exceeds current_bet, and
\* current_bet is the highest contribution unless it is the blind that a seat
\* has posted short before the flop
CurrentBetBounds ==
    (BettingState /\ table.small_blind < table.big_blind) =>
        /\ \A i \in Seats : Contribution(gamehand, gamehand.street, i) <= gamehand.current_bet
        /\ \/ gamehand.current_bet = HighestContribution
           \/ /\ gamehand.street = "Preflop"
              /\ gamehand.current_bet \in {table.small_blind, table.big_blind}
              /\ \E i \in Seats : /\ table.players[i].id # 0
                                    /\ table.players[i].money = 0
                                    /\ Contribution(gamehand, "Preflop", i) \in 1 .. gamehand.current_bet - 1

SeatsMatchConfigs(t) ==
    /\ \A s \in Occupied(t.players) : t.configs[t.players[s].id].present
    /\ \A id \in AllIds : t.configs[id].present => Seated(t, id)

\* no config is without seat, and no player has two seats
ConfigsAreSeated ==
    /\ \A id \in AllIds : table.configs[id].present => Seated(table, id)
    /\ \A s, u \in Occupied(table.players) :
          table.players[s].id = table.players[u].id => s = u

\* a seat loses its config and keeps its player only when a Leave of that
\* player is drained, and a player who stays seated stays at the same index
SeatStep ==
    /\ \A s \in Occupied(table.players) :
          LET id == table.players[s].id
          IN /\ (table.configs[id].present /\ ~table'.configs[id].present
                    /\ table'.players[s].id = id) => id \in Leaving
             /\ Seated(table', id) => table'.players[s].id = id
    /\ (pc \in {"between", "street_loop"} /\ DriverStep) => Leavers(table') = {}

\* C32: when a hand starts, after the sweep of the hand loop, every occupied
\* seat has a config of its id and every config a seat; in a hand a seat is
\* without config only from the drain of a Leave to the next sweep; no config
\* ever is without seat; a seated player keeps the seat index
C32_SeatsAndConfigs ==
    /\ [](pc = "play_one_hand" => SeatsMatchConfigs(table))
    /\ []ConfigsAreSeated
    /\ [][SeatStep]_vars

\* a player has left while asked during the hand: the seat is without config
\* until the loop is back at its top
C32_Witness ==
    /\ pc = "poll"
    /\ Leavers(table) # {}
    /\ hist.joined # {}

\* the place of a street in the order of the hand
StreetIndex(st) == CHOOSE k \in 1 .. Len(Streets) : Streets[k] = st

\* the community cards on the table
CommunityCards(gh) ==
    Len(gh.flop) + (IF gh.turn # 0 THEN 1 ELSE 0) + (IF gh.river # 0 THEN 1 ELSE 0)

\* the street changes only in a transition, to the next street, with the
\* bet and the seat to act reset and the cards of the street entered dealt
\* from the deck; every other step of a hand leaves street and cards alone
StreetStep ==
    /\ (pc = "transition" /\ pc' # pc) =>
          /\ gamehand.street # "ShowDown"
          /\ StreetIndex(gamehand'.street) = StreetIndex(gamehand.street) + 1
          /\ gamehand'.current_bet = 0
          /\ gamehand'.index_to_act = NumSeats
          /\ LET dealt == CASE gamehand'.street = "Flop" -> 3
                             [] gamehand'.street = "Turn" -> 1
                             [] gamehand'.street = "River" -> 1
                             [] OTHER -> 0
             IN /\ CommunityCards(gamehand') = CommunityCards(gamehand) + dealt
                /\ table'.deck = table.deck + dealt
          /\ gamehand'.street = "Flop" => Len(gamehand'.flop) = 3 /\ gamehand.flop = <<>>
          /\ gamehand'.street = "Turn" => gamehand'.turn # 0 /\ gamehand.turn = 0
          /\ gamehand'.street = "River" => gamehand'.river # 0 /\ gamehand.river = 0
    /\ (InHand /\ pc # "transition") =>
          /\ gamehand'.street = gamehand.street
          /\ gamehand'.flop = gamehand.flop
          /\ gamehand'.turn = gamehand.turn
          /\ gamehand'.river = gamehand.river
          /\ pc' \in {"finish_hand", "between", "aborted"} => table'.deck = table.deck

\* flop, turn and river are there for the streets entered and for no other
CardsOfStreet ==
    InHand =>
        /\ Len(gamehand.flop) = (IF StreetIndex(gamehand.street) >= 2 THEN 3 ELSE 0)
        /\ (gamehand.turn # 0) <=> StreetIndex(gamehand.street) >= 3
        /\ (gamehand.river # 0) <=> StreetIndex(gamehand.street) >= 4

\* C33: in a hand the street moves only forward, one street at a time, in a
\* transition that resets current_bet and index_to_act and deals 3 cards for
\* the flop, 1 for the turn, 1 for the river; the cards on the table are those
\* of the streets entered; a hand that ends by folds keeps its street and
\* gets no further card
C33_StreetProgression == []CardsOfStreet /\ [][StreetStep]_vars

\* a hand has ended by a fold on the turn: the river is not dealt
C33_Witness ==
    /\ pc = "finish_hand"
    /\ gamehand.street = "Turn"
    /\ gamehand.turn # 0
    /\ gamehand.river = 0
    /\ hist.folded # {}

\* the seats whose player has money
WithMoney(players) == {s \in Occupied(players) : players[s].money > 0}

\* play_one_hand finds fewer than two seats occupied or fewer than two
\* seated players with money
SuspendedCase ==
    /\ pc = "play_one_hand"
    /\ pc' # pc
    /\ \/ Cardinality(Occupied(table.players)) < 2
       \/ Cardinality(WithMoney(table.players)) < 2

\* the game_state messages of the step say that the game is suspended, one
\* for every seated player with a recipient
SuspendedBroadcast ==
    /\ \A m \in outbox' : m.msg_type = "game_state" /\ m.body.state.game_suspended
    /\ \A s \in Occupied(table.players) :
          LET c == table.configs[table.players[s].id]
          IN (c.present /\ c.player_addr # 0) =>
                \E m \in outbox' : m.to = c.player_addr /\ m.body.your_index = s

SuspendedStep ==
    SuspendedCase =>
        /\ pc' = "between"
        /\ \A s \in Seats :
              /\ table'.players[s].money = table.players[s].money
              /\ table'.players[s].hole_cards = table.players[s].hole_cards
              /\ table'.players[s].id = table.players[s].id
        /\ table'.deck = table.deck
        /\ gamehand' = DefaultGameHand
        /\ incoming_actions' = incoming_actions
        /\ table'.hand_num = table.hand_num
        /\ table'.button_idx = table.button_idx
        /\ SuspendedBroadcast

\* C34: with fewer than two seats occupied or fewer than two seated players
\* with money play_one_hand deals no card, posts no blind, changes no money,
\* leaves the mailbox as it is, broadcasts a game_state with game_suspended
\* and returns false: hand_num and button_idx stay
C34_Suspended == [][SuspendedStep]_vars

\* the game has been suspended with an action in the mailbox and a player
\* who was told so
C34_Witness ==
    /\ pc = "between"
    /\ \E id \in HumanIds : incoming_actions[id] # NoAction
    /\ \E m \in outbox : m.msg_type = "game_state" /\ m.body.state.game_suspended
    /\ table.hand_num = 1

\* play_street ends the street and the hand goes on
StreetEnds == pc = "street_loop" /\ pc' = "transition"

\* the seats still in the hand with money
StillToAct(t) == {s \in Occupied(t.players) : t.players[s].is_active /\ t.players[s].money > 0}

\* C35: when play_street ends a street and the hand is not over, every seat
\* that is still active and has money has put in current_bet on that street
\* and has had its turn (its last action of the street is an action of a
\* turn, not a blind and not none), whatever Leave is drained meanwhile
C35_StreetEnd ==
    [][StreetEnds =>
          \A s \in StillToAct(table') :
              /\ Contribution(gamehand', gamehand.street, s) = gamehand'.current_bet
              /\ table'.players[s].last_action.type
                    \notin {"None", "PostSmallBlind", "PostBigBlind"}]_vars

\* C36: a hand that is played ends: when every seat that is asked answers,
\* play_street ends every street and play_one_hand reaches finish_hand, for
\* every pair of blinds the admin commands allow and whatever Leave is drained
C36_HandTerminates == (pc = "street_start") ~> (pc \in {"finish_hand", "between", "game_over", "aborted"})

\* what the action applied last took from the seat's money, computed as
\* play_street computes it from the state the action met
AmountTaken ==
    LET a == hist.applied
    IN CASE a.action.type \in {"PostSmallBlind", "PostBigBlind"} -> a.action.amount
         [] a.action.type = "Call" -> Min(a.current_bet - a.cumulative, a.money)
         [] a.action.type = "Bet" -> a.action.amount - a.cumulative
         [] OTHER -> 0

\* no subtraction of play_street goes below zero
NoUnderflow ==
    /\ \A s \in Seats : table.players[s].money >= 0
    /\ hist.applied.seat \in Seats =>
          /\ AmountTaken >= 0
          /\ AmountTaken <= hist.applied.money
          /\ hist.applied.action.type = "Call" => hist.applied.current_bet - hist.applied.cumulative >= 0
          /\ table.players[hist.applied.seat].id # 0 =>
                table.players[hist.applied.seat].money = hist.applied.money - AmountTaken

ButtonCandidates(t) ==
    {s \in Occupied(t.players) : ~t.players[s].is_sitting_out /\ t.players[s].money > 0}

\* C38: after every played hand some occupied seat is not sitting out and has
\* money, so find_next_button finds a seat and the driver does not abort,
\* also when players sit out during the hand
C38_ButtonFound ==
    /\ pc # "aborted"
    /\ (pc = "between" /\ hist.finished) => ButtonCandidates(table) # {}

\* the client of the player has been active in the step: its action is read
\* from the mailbox and returned, or a meta-action it sent is drained
ClientActivity(id) ==
    \/ /\ hist'.applied.seat \in Seats
       /\ hist'.applied.submitted # NoAction
       /\ table.players[hist'.applied.seat].id = id
    \/ \E k \in 1 .. Len(incoming_meta_actions) :
          /\ incoming_meta_actions[k].id = id
          /\ incoming_meta_actions[k].type \in {"Chat", "ImBack", "Join"}

\* C39: the heart beat of a config is refreshed only by what comes from the
\* player's client (an action from the mailbox, a Chat, an ImBack), not by
\* what the engine produces itself: a blind, the SitOut of a seat that sits
\* out, the SitOut of a time-out, the Fold of a leaver
C39_HeartBeatRefresh ==
    [][\A id \in AllIds :
          (/\ table.configs[id].present
           /\ ~table.configs[id].heart_beat
           /\ table'.configs[id].present
           /\ table'.configs[id].heart_beat) => ClientActivity(id)]_vars

\* a SetPassword of the admin is in the queue
AdminSetsPassword ==
    \E k \in 1 .. Len(incoming_meta_actions) :
        /\ incoming_meta_actions[k].type = "Admin"
        /\ incoming_meta_actions[k].cmd = "SetPassword"
        /\ incoming_meta_actions[k].id = table.admin_id

\* a table has a password after a step exactly if it had one before; the
\* password changes only by a SetPassword of the admin; on a table without
\* password the Admin commands change nothing and the admin's SetPassword is
\* answered with not_private
PrivacyStep ==
    /\ (table'.password = 0) <=> (table.password = 0)
    /\ (table'.password # table.password) =>
          /\ AdminSetsPassword
          /\ \E k \in 1 .. Len(incoming_meta_actions) :
                table'.password = incoming_meta_actions[k].val
    /\ (AdminDrain /\ table.password = 0) =>
          /\ table' = table
          /\ (AdminSetsPassword /\ table.configs[table.admin_id].present) =>
                Msg(table.configs[table.admin_id].player_addr, "error", ErrorBody("not_private"))
                    \in outbox'

\* C40: whether the table is private never changes: no meta-action or admin
\* command gives a password to a table without one (SetPassword is refused
\* with not_private) and none clears a password; the admin commands change
\* nothing of a table created without password
C40_PrivacyFixed == [][PrivacyStep]_vars

\* the admin's SetPassword has just been refused on a table without password
C40_Witness ==
    /\ table.password = 0
    /\ pc = "play_one_hand"
    /\ client_metas > 0
    /\ Msg(table.configs[table.admin_id].player_addr, "error", ErrorBody("not_private"))
          \in outbox

====
